---- MODULE Spec2Model ----
(***************************************************************************)
(* micro-packed (src/src/index.ts): the Reader / Writer kernel, the read   *)
(* bitset, and the coders built on them.                                   *)
(*                                                                         *)
(* 32-bit machine words (Uint32Array cells, the operands of the JS bit     *)
(* operators) are sets of bit indices: bit i has weight 2^i, so            *)
(* {0} is 1 and 0..31 is 0xFFFFFFFF (-1 as an Int32).  Bytes are 0..255.   *)
(***************************************************************************)
EXTENDS Integers, Sequences, FiniteSets, TLC

VARIABLES
  pc,      \* which run this is, and where it stands
  rd,      \* the Reader in use: the top reader and the root's tracking state
  rstack,  \* the parent Readers of rd (offsetReader chain), root first
  rlast,   \* the last Reader call: its arguments, its outcome, the Reader before it
  wr,      \* the Writer
  wlast,   \* the last Writer call
  io       \* inputs and outputs of the coder-level runs

vars == <<pc, rd, rstack, rlast, wr, wlast, io>>

-----------------------------------------------------------------------------
(* Bounds of the model *)

MaxLen == 2        \* longest enumerated input buffer
MaxN == 2          \* largest small length passed to bytes(n)
MaxDepth == 2      \* deepest chain of pointer-derived Readers
MaxOut == 2        \* bytes a Writer session emits before its calls stop
MaxIntSize == 2    \* widest enumerated integer coder, in bytes
MaxFields == 3     \* longest enumerated sequence of bit fields

-----------------------------------------------------------------------------
(* JS values *)

Undef == -1                      \* undefined, where a byte was expected
Pow2(n) == 2 ^ n
Min(a, b) == IF a < b THEN a ELSE b
Max(a, b) == IF a > b THEN a ELSE b

\* const x = v; body(x): a value computed once and named
With(v, F(_)) == F(v)

BITS == 32
FULL_MASK == 0 .. (BITS - 1)

\* x << k, x >>> k and x >> k on Int32 operands; the shift count is taken mod 32
Shl(w, k) == {i + (k % 32) : i \in w} \cap (0 .. 31)
Shr(w, k) == {i - (k % 32) : i \in w} \cap (0 .. 31)
Sar(w, k) == Shr(w, k) \cup (IF 31 \in w THEN (32 - (k % 32)) .. 31 ELSE {})

\* a % b of JS: the remainder has the sign of the dividend
JsMod(a, b) == IF a >= 0 THEN a % b ELSE 0 - ((0 - a) % b)

\* the word of a small non-negative number, and the number of a word below 2^31
WordOf(n) == {i \in 0 .. 30 : (n \div Pow2(i)) % 2 = 1}
RECURSIVE NumOf(_)
NumOf(w) == IF w = {} THEN 0
            ELSE LET i == CHOOSE j \in w : TRUE IN Pow2(i) + NumOf(w \ {i})
\* new Uint8Array([x])[0]: the low eight bits
ToUint8(w) == NumOf(w \cap (0 .. 7))

-----------------------------------------------------------------------------
(* Bitset: one bit per input byte, in 32-bit chunks; byte p is the bit of  *)
(* weight 2^(31 - p % 32) of chunk floor(p / 32).                           *)

BitsetLen(len) == (len + BITS - 1) \div BITS
BitsetCreate(len) == [i \in 1 .. BitsetLen(len) |-> {}]
\* bs[chunk]; an index outside the array reads undefined, which & turns into 0
BitsetGet(bs, chunk) == IF chunk \in 0 .. (Len(bs) - 1) THEN bs[chunk + 1] ELSE {}

\* Bitset.set storing value in place of bs[chunk] | value
BitsetSet_assign(bs, chunk, value, allowRewrite) ==
  IF ~allowRewrite /\ (BitsetGet(bs, chunk) \cap value) # {}
  THEN [ok |-> FALSE, bs |-> bs]
  ELSE [ok |-> TRUE,
        bs |-> IF chunk \in 0 .. (Len(bs) - 1)
               THEN [bs EXCEPT ![chunk + 1] = value] ELSE bs]

\* Bitset.set: [ok, bs]; a store outside the array is dropped
BitsetSet(bs, chunk, value, allowRewrite) ==
  IF ~allowRewrite /\ (BitsetGet(bs, chunk) \cap value) # {}
  THEN [ok |-> FALSE, bs |-> bs]
  ELSE [ok |-> TRUE,
        bs |-> IF chunk \in 0 .. (Len(bs) - 1)
               THEN [bs EXCEPT ![chunk + 1] = @ \cup value] ELSE bs]

\* Bitset.chunkLen: TRUE when it throws
BitsetChunkLenThrows(bsLen, pos, len) == pos < 0 \/ pos + len > bsLen

\* the middle chunks of setRange: for (i = start; i < end; i++) set(bs, i, FULL_MASK)
RECURSIVE BitsetMiddle(_, _, _, _)
BitsetMiddle(bs, i, end, allowRewrite) ==
  IF i >= end THEN [ok |-> TRUE, bs |-> bs]
  ELSE With(BitsetSet(bs, i, FULL_MASK, allowRewrite), LAMBDA s :
         IF ~s.ok THEN s ELSE BitsetMiddle(s.bs, i + 1, end, allowRewrite))

\* Bitset.setRange: [thrown, ok, bs]; first/last = Undef when the range starts/ends
\* on a chunk boundary
BitsetSetRange(bs, bsLen, pos, len, allowRewrite) ==
  IF BitsetChunkLenThrows(bsLen, pos, len)
  THEN [thrown |-> TRUE, ok |-> FALSE, bs |-> bs]
  ELSE
    LET first == IF JsMod(pos, BITS) # 0 THEN pos \div BITS ELSE Undef
        lastPos == pos + len
        last == IF JsMod(lastPos, BITS) # 0 THEN lastPos \div BITS ELSE Undef
        start == IF first # Undef THEN first + 1 ELSE pos \div BITS
        end == IF last # Undef THEN last ELSE lastPos \div BITS
    IN
    IF first # Undef /\ first = last
    THEN With(BitsetSet(bs, first,
                        Shl(Shr(FULL_MASK, BITS - len), BITS - len - pos),
                        allowRewrite),
              LAMBDA s : [thrown |-> FALSE, ok |-> s.ok, bs |-> s.bs])
    ELSE
      With(IF first # Undef
           THEN BitsetSet(bs, first, Shr(FULL_MASK, JsMod(pos, BITS)), allowRewrite)
           ELSE [ok |-> TRUE, bs |-> bs], LAMBDA s1 :
      With(IF s1.ok THEN BitsetMiddle(s1.bs, start, end, allowRewrite) ELSE s1,
           LAMBDA s2 :
      With(IF s2.ok /\ last # Undef /\ first # last
           THEN BitsetSet(s2.bs, last,
                          Shl(FULL_MASK, BITS - JsMod(lastPos, BITS)), allowRewrite)
           ELSE s2, LAMBDA s3 :
        [thrown |-> FALSE, ok |-> s3.ok, bs |-> s3.bs])))

\* Bitset.indices: the set (unset, with invert) positions below len, ascending
BitsetIndices(bs, len, invert) ==
  LET left == BITS - (len % BITS)
      lastMask == Shl(Shr(FULL_MASK, left), left)
      Chunk(i) == LET c == IF invert THEN FULL_MASK \ bs[i + 1] ELSE bs[i + 1]
                  IN IF i = Len(bs) - 1 THEN c \cap lastMask ELSE c
  IN {p \in 0 .. (Len(bs) * BITS - 1) : (BITS - (p % BITS) - 1) \in Chunk(p \div BITS)}

-----------------------------------------------------------------------------
(* Reader.  A Reader value r: the root buffer r.data, the options, the     *)
(* root's read bitset (bsOn: allocated), and the fields of the Reader in   *)
(* use: base (the sum of parentOffset up to the root, so that this.data is *)
(* the suffix of r.data from base), pos, bitBuf, bitPos, child (has a      *)
(* parent).  Every operation returns [r, err, val]: err = "ok" or the kind *)
(* of the Error thrown, r the Reader as the call leaves it.                *)
(* History fields, read by no operation: seen, the root offsets whose      *)
(* bytes successful non-peek reads have returned; dup, whether such a read *)
(* returned a byte of seen while the bitset was on and allowMultipleReads  *)
(* off; thrown, whether a call on this Reader has thrown.                  *)

NewReader(data, multi, unread) ==
  [data |-> data, multi |-> multi, unread |-> unread, bsOn |-> FALSE, bs |-> <<>>,
   base |-> 0, pos |-> 0, bitBuf |-> 0, bitPos |-> 0, child |-> FALSE,
   seen |-> {}, dup |-> FALSE, thrown |-> FALSE]

Ok(r, val) == [r |-> r, err |-> "ok", val |-> val]
Throw(r, why) == [r |-> [r EXCEPT !.thrown = TRUE], err |-> why, val |-> Undef]

\* this.data.length
DataLen(r) == Len(r.data) - r.base
\* this.data[i]
DataAt(r, i) == IF i \in 0 .. (DataLen(r) - 1) THEN r.data[r.base + i + 1] ELSE Undef
\* the index clamping of Uint8Array.prototype.subarray: negative counts from the end
RelIndex(i, n) == IF i < 0 THEN Max(n + i, 0) ELSE Min(i, n)
\* this.data.subarray(b, e)
Subarray(r, b, e) ==
  LET n == DataLen(r)
      bi == RelIndex(b, n)
      ei == RelIndex(e, n)
  IN [k \in 1 .. Max(ei - bi, 0) |-> r.data[r.base + bi + k]]

\* the root offsets of this.data.subarray(b, e)
SubarrayIdx(r, b, e) ==
  LET n == DataLen(r)
      bi == RelIndex(b, n)
      ei == RelIndex(e, n)
  IN {r.base + bi + k - 1 : k \in 1 .. Max(ei - bi, 0)}
\* history: a successful non-peek read returned the bytes at root offsets idx
Returned(r0, r, idx) ==
  [r EXCEPT !.seen = @ \cup idx,
            !.dup = @ \/ (r0.bsOn /\ ~r0.multi /\ idx \cap r0.seen # {})]

\* Reader.enablePtr, reached from the root or through the parents: rootPos is the
\* root's pos.  A fresh bitset has no bit set, so allowRewrite decides nothing here.
EnablePtr(r, rootPos) ==
  IF r.bsOn THEN r
  ELSE [r EXCEPT !.bsOn = TRUE,
                 !.bs = BitsetSetRange(BitsetCreate(Len(r.data)), Len(r.data),
                                       0, rootPos, TRUE).bs]

\* Reader.markBytesBS, through the parents to the root: [thrown, ok, bs]
MarkBytesBS(r, pos, len) ==
  IF len = 0 \/ ~r.bsOn THEN [thrown |-> FALSE, ok |-> TRUE, bs |-> r.bs]
  ELSE BitsetSetRange(r.bs, Len(r.data), r.base + pos, len, FALSE)

\* Reader.markBytes without the multiple-read error
MarkBytes_anyReads(r, len) ==
  With(MarkBytesBS(r, r.pos, len), LAMBDA m :
    LET r1 == [r EXCEPT !.pos = r.pos + len, !.bs = m.bs]
    IN IF m.thrown THEN Throw(r1, "range")
       ELSE Ok(r1, m.ok))

\* Reader.markBytes
MarkBytes(r, len) ==
  With(MarkBytesBS(r, r.pos, len), LAMBDA m :
    LET r1 == [r EXCEPT !.pos = r.pos + len, !.bs = m.bs]
    IN IF m.thrown THEN Throw(r1, "range")
       ELSE IF ~r.multi /\ ~m.ok THEN Throw(r1, "multi")
       ELSE Ok(r1, m.ok))

\* Reader.bytes without the bitPos test
ReaderBytes_unaligned(r, n, peek) ==
  IF r.pos + n > DataLen(r) THEN Throw(r, "eof")
  ELSE IF peek THEN Ok(r, Subarray(r, r.pos, r.pos + n))
  ELSE With(MarkBytes(r, n), LAMBDA m :
         IF m.err # "ok" THEN m
         ELSE Ok(Returned(r, m.r, SubarrayIdx(r, r.pos, r.pos + n)),
                 Subarray(r, r.pos, r.pos + n)))

\* Reader.bytes without the end-of-buffer test
ReaderBytes_noEnd(r, n, peek) ==
  IF r.bitPos # 0 THEN Throw(r, "bitpos")
  ELSE IF peek THEN Ok(r, Subarray(r, r.pos, r.pos + n))
  ELSE With(MarkBytes(r, n), LAMBDA m :
         IF m.err # "ok" THEN m
         ELSE Ok(Returned(r, m.r, SubarrayIdx(r, r.pos, r.pos + n)),
                 Subarray(r, r.pos, r.pos + n)))

\* Reader.bytes(n, peek)
ReaderBytes(r, n, peek) ==
  IF r.bitPos # 0 THEN Throw(r, "bitpos")
  ELSE IF r.pos + n > DataLen(r) THEN Throw(r, "eof")
  ELSE IF peek THEN Ok(r, Subarray(r, r.pos, r.pos + n))
  ELSE With(MarkBytes(r, n), LAMBDA m :
         IF m.err # "ok" THEN m
         ELSE Ok(Returned(r, m.r, SubarrayIdx(r, r.pos, r.pos + n)),
                 Subarray(r, r.pos, r.pos + n)))

\* Reader.byte(peek)
ReaderByte(r, peek) ==
  IF r.bitPos # 0 THEN Throw(r, "bitpos")
  ELSE IF r.pos + 1 > DataLen(r) THEN Throw(r, "eof")
  ELSE IF peek THEN Ok(r, DataAt(r, r.pos))
  ELSE With(MarkBytes(r, 1), LAMBDA m :
         IF m.err # "ok" THEN m
         ELSE Ok(Returned(r, m.r, IF r.pos < 0 THEN {} ELSE {r.base + r.pos}),
                 DataAt(r, r.pos)))

\* leftBytes, isEnd
LeftBytes(r) == DataLen(r) - r.pos
IsEnd(r) == r.pos >= DataLen(r) /\ r.bitPos = 0

\* ToInt32 of a byte read from the buffer (undefined becomes 0)
ByteNum(b) == IF b = Undef THEN 0 ELSE b

\* the loop of Reader.bits: out is the accumulator, an Int32 word
RECURSIVE ReaderBitsLoop(_, _, _)
ReaderBitsLoop(r, bits, out) ==
  IF bits = 0 THEN Ok(r, out)
  ELSE
    With(IF r.bitPos = 0 THEN ReaderByte(r, FALSE) ELSE Ok(r, r.bitBuf), LAMBDA f :
      IF f.err # "ok" THEN f
      ELSE
        LET r1 == IF r.bitPos = 0 THEN [f.r EXCEPT !.bitBuf = f.val, !.bitPos = 8]
                  ELSE r
            take == Min(bits, r1.bitPos)
            bp == r1.bitPos - take
            got == (ByteNum(r1.bitBuf) \div Pow2(bp)) % Pow2(take)
        IN ReaderBitsLoop([r1 EXCEPT !.bitPos = bp,
                                     !.bitBuf = ByteNum(r1.bitBuf) % Pow2(bp)],
                          bits - take, Shl(out, take) \cup WordOf(got)))

\* Reader.bits(bits): the value is out >>> 0, the word read as an unsigned number
ReaderBits(r, bits) ==
  IF bits > 32 THEN Throw(r, "bits32") ELSE ReaderBitsLoop(r, bits, {})

\* the loop of Reader.find: idx = this.data.indexOf(needle[0], idx), then the
\* length and equalBytes tests
RECURSIVE FindLoop(_, _, _)
FindLoop(r, needle, from) ==
  LET n == DataLen(r)
      k == IF from < 0 THEN Max(n + from, 0) ELSE from
      hits == {i \in k .. (n - 1) : DataAt(r, i) = needle[1]}
  IN IF hits = {} THEN Undef
     ELSE LET idx == CHOOSE i \in hits : \A j \in hits : i <= j
          IN IF n - idx < Len(needle) THEN Undef
             ELSE IF Subarray(r, idx, idx + Len(needle)) = needle THEN idx
             ELSE FindLoop(r, needle, idx + 1)

\* Reader.find(needle, pos = this.pos)
ReaderFind(r, needle) ==
  IF r.bitPos # 0 THEN Throw(r, "bitpos")
  ELSE IF Len(needle) = 0 THEN Throw(r, "needle")
  ELSE Ok(r, FindLoop(r, needle, r.pos))

\* Reader.offsetReader taking n as an offset of the root buffer at every depth
OffsetReader_absolute(r, n) ==
  IF n > DataLen(r) THEN Throw(r, "abs")
  ELSE Ok([r EXCEPT !.base = n, !.pos = 0,
                    !.bitBuf = 0, !.bitPos = 0, !.child = TRUE], Undef)

\* Reader.absBytes / Reader.offsetReader(n), n >= 0: the child Reader over
\* this.data.subarray(n), parentOffset = n
OffsetReader(r, n) ==
  IF n > DataLen(r) THEN Throw(r, "abs")
  ELSE Ok([r EXCEPT !.base = r.base + n, !.pos = 0,
                    !.bitBuf = 0, !.bitPos = 0, !.child = TRUE], Undef)

\* Reader.finish without the read-bitset branch
ReaderFinish_posOnly(r) ==
  IF r.unread THEN Ok(r, Undef)
  ELSE IF r.bitPos # 0 THEN Throw(r, "bitsleft")
  ELSE IF ~IsEnd(r) THEN Throw(r, "bytesleft")
  ELSE Ok(r, Undef)

\* Reader.finish
ReaderFinish(r) ==
  IF r.unread THEN Ok(r, Undef)
  ELSE IF r.bitPos # 0 THEN Throw(r, "bitsleft")
  ELSE IF r.bsOn /\ ~r.child
       THEN IF BitsetIndices(r.bs, Len(r.data), TRUE) # {} THEN Throw(r, "unread")
            ELSE Ok(r, Undef)
  ELSE IF ~IsEnd(r) THEN Throw(r, "bytesleft")
  ELSE Ok(r, Undef)

-----------------------------------------------------------------------------
(* Values: [t |-> "int", v], [t |-> "bool", v], [t |-> "bytes", v],        *)
(* [t |-> "arr", v] (arrays and tuples), [t |-> "obj", v] (struct fields   *)
(* in declaration order), [t |-> "tag", tag, data], [t |-> "str", v],      *)
(* [t |-> "undef"].                                                        *)
(* Length specifiers: [t |-> "coder", c], [t |-> "num", n],                *)
(* [t |-> "term", b], [t |-> "null"].                                      *)

VInt(n) == [t |-> "int", i |-> n]
VBool(b) == [t |-> "bool", b |-> b]
VBytes(b) == [t |-> "bytes", u8 |-> b]
VArr(a) == [t |-> "arr", a |-> a]
VUndef == [t |-> "undef"]
VStr(x) == [t |-> "str", s |-> x]
VObj(a) == [t |-> "obj", o |-> a]
VTag(tag, data) == [t |-> "tag", tag |-> tag, data |-> data]
VWord(w) == [t |-> "word", w |-> w]

\* a JS object with its keys: names[i] is the key of o[i]
VRec(names, vals) == [t |-> "rec", names |-> names, o |-> vals]

\* !!value
Truthy(v) ==
  CASE v.t = "undef" -> FALSE
    [] v.t = "int" -> v.i # 0
    [] v.t = "bool" -> v.b
    [] v.t = "str" -> v.s # ""
    [] OTHER -> TRUE

LCoder(c) == [t |-> "coder", c |-> c]
LNum(n) == [t |-> "num", n |-> n]
LTerm(b) == [t |-> "term", b |-> b]
LNull == [t |-> "null"]
LPath(p) == [t |-> "path", p |-> p]

\* the coders of the library's aliases
CBigint(size, le, signed) ==
  [k |-> "bigint", size |-> size, le |-> le, signed |-> signed, sized |-> TRUE]
CInt(size, le, signed) ==
  [k |-> "int", size |-> size, le |-> le, signed |-> signed, sized |-> TRUE]
U8 == CInt(1, FALSE, FALSE)
I8 == CInt(1, FALSE, TRUE)
CBytesOf(len) == [k |-> "bytes", len |-> len, le |-> FALSE]
CBool == [k |-> "bool"]
CBits(len) == [k |-> "bits", len |-> len]
CFlag(flagValue, xor) == [k |-> "flag", flagValue |-> flagValue, xor |-> xor]
CConstant(c) == [k |-> "constant", c |-> c]
CMagic(inner, constant) ==
  [k |-> "magic", inner |-> inner, constant |-> constant, check |-> TRUE]
COptional(flag, inner, def) == [k |-> "optional", flag |-> flag, inner |-> inner, def |-> def]
\* flagged(path, inner, def): sel is LPath(segments) or LCoder(flag coder)
CFlagged(sel, inner, def) == [k |-> "flagged", sel |-> sel, inner |-> inner, def |-> def]
CTuple(fields) == [k |-> "tuple", fields |-> fields]
CStruct(names, fields) == [k |-> "struct", names |-> names, fields |-> fields]
CPrefix(len, inner) == [k |-> "prefix", len |-> len, inner |-> inner]
CArray(len, inner) == [k |-> "array", len |-> len, inner |-> inner]
CMap(inner, variants) == [k |-> "map", inner |-> inner, variants |-> variants]
CTag(tag, variants) == [k |-> "tag", tag |-> tag, variants |-> variants]
CPadLeft(blockSize, inner) == [k |-> "padLeft", blockSize |-> blockSize, inner |-> inner]
CPadRight(blockSize, inner) == [k |-> "padRight", blockSize |-> blockSize, inner |-> inner]
CPointer(ptr, inner, sized) == [k |-> "pointer", ptr |-> ptr, inner |-> inner, sized |-> sized]

\* swap / Uint8Array.reverse
Reverse(b) == [i \in 1 .. Len(b) |-> b[Len(b) + 1 - i]]

\* checkBounds with the upper signed bound taken inclusive
CheckBoundsThrows_inclusive(value, bits, signed) ==
  IF signed THEN value < 0 - Pow2(bits - 1) \/ value > Pow2(bits - 1)
  ELSE 0 > value \/ value > Pow2(bits)

\* checkBounds: TRUE when it throws
CheckBoundsThrows(value, bits, signed) ==
  IF signed THEN value < 0 - Pow2(bits - 1) \/ value >= Pow2(bits - 1)
  ELSE 0 > value \/ value >= Pow2(bits)

\* res |= BigInt(b[i]) << (8n * BigInt(i)), i = 0 .. b.length - 1
RECURSIVE BytesToNum(_)
BytesToNum(b) == IF Len(b) = 0 THEN 0 ELSE b[1] + 256 * BytesToNum(Tail(b))

\* bigint(...).decodeStream after r.bytes: the bytes read to the value, [err, v]
BigintFromBytes(value, size, le, signed) ==
  LET signBit == Pow2(8 * size - 1)
  IN With(BytesToNum(IF le THEN value ELSE Reverse(value)), LAMBDA raw :
     With(IF signed /\ (raw \div signBit) % 2 = 1
          THEN (raw - signBit) - signBit      \* (res ^ signBit) - signBit
          ELSE raw, LAMBDA res :
       IF CheckBoundsThrows(res, 8 * size, signed) THEN [err |-> "bounds", v |-> 0]
       ELSE [err |-> "ok", v |-> res]))

\* bigint(size, le, signed, sized).decodeStream; int(...) adds coders.number.encode,
\* which throws above MAX_SAFE_INTEGER only (never below 7 bytes)
BigintDecodeStream(c, r) ==
  With(ReaderBytes(r, IF c.sized THEN c.size ELSE Min(c.size, LeftBytes(r)), FALSE),
       LAMBDA rb :
    IF rb.err # "ok" THEN rb
    ELSE With(BigintFromBytes(rb.val, c.size, c.le, c.signed), LAMBDA d :
           IF d.err # "ok" THEN Throw(rb.r, d.err) ELSE Ok(rb.r, VInt(d.v))))

\* flag.decodeStream that reads the bytes it compares instead of peeking
FlagDecodeStream_noPeek(c, r) ==
  IF LeftBytes(r) < Len(c.flagValue) THEN Ok(r, VBool(FALSE # c.xor))
  ELSE With(ReaderBytes(r, Len(c.flagValue), FALSE), LAMBDA rb :
         IF rb.err # "ok" THEN rb
         ELSE Ok(rb.r, VBool((rb.val = c.flagValue) # c.xor)))

\* flag(flagValue, xor).decodeStream
FlagDecodeStream(c, r) ==
  IF LeftBytes(r) < Len(c.flagValue) THEN Ok(r, VBool(FALSE # c.xor))
  ELSE With(ReaderBytes(r, Len(c.flagValue), TRUE), LAMBDA pk :
         IF pk.err # "ok" THEN pk
         ELSE IF pk.val # c.flagValue THEN Ok(r, VBool(FALSE # c.xor))
         ELSE With(ReaderBytes(r, Len(c.flagValue), FALSE), LAMBDA rb :
                IF rb.err # "ok" THEN rb ELSE Ok(rb.r, VBool(TRUE # c.xor))))

\* bool.decodeStream
BoolDecodeStream(r) ==
  With(ReaderByte(r, FALSE), LAMBDA rb :
    IF rb.err # "ok" THEN rb
    ELSE IF rb.val # 0 /\ rb.val # 1 THEN Throw(rb.r, "bool")
    ELSE Ok(rb.r, VBool(rb.val = 1)))

RECURSIVE Dec(_, _)
RECURSIVE ReaderLength(_, _)
RECURSIVE Size(_)
RECURSIVE DecFields(_, _, _)
RECURSIVE DecArrayN(_, _, _, _)
RECURSIVE DecArrayNull(_, _, _)
RECURSIVE DecArrayTerm(_, _, _)

\* Reader.length(len) for a coder or a number: val is the number
ReaderLength(r, len) ==
  IF len.t = "coder"
  THEN With(Dec(len.c, r), LAMBDA d :
         IF d.err # "ok" THEN d
         ELSE IF d.val.t # "int" THEN Throw(d.r, "length")
         ELSE Ok(d.r, d.val.i))
  ELSE IF len.t = "num" THEN Ok(r, len.n)
  ELSE Throw(r, "length")

\* bytes(len, le).decodeStream
BytesDecodeStream(c, r) ==
  IF c.len.t = "term"
  THEN With(ReaderFind(r, c.len.b), LAMBDA f :
         IF f.err # "ok" THEN f
         ELSE IF f.val = Undef \/ f.val = 0 THEN Throw(r, "terminator")   \* if (!tPos)
         ELSE With(ReaderBytes(r, f.val - r.pos, FALSE), LAMBDA b1 :
                IF b1.err # "ok" THEN b1
                ELSE With(ReaderBytes(b1.r, Len(c.len.b), FALSE), LAMBDA b2 :
                       IF b2.err # "ok" THEN b2
                       ELSE Ok(b2.r, VBytes(IF c.le THEN Reverse(b1.val) ELSE b1.val)))))
  ELSE With(IF c.len.t = "null" THEN Ok(r, LeftBytes(r)) ELSE ReaderLength(r, c.len),
            LAMBDA l :
         IF l.err # "ok" THEN l
         ELSE With(ReaderBytes(l.r, l.val, FALSE), LAMBDA b :
                IF b.err # "ok" THEN b
                ELSE Ok(b.r, VBytes(IF c.le THEN Reverse(b.val) ELSE b.val))))

\* the field loop of struct.decodeStream and tuple.decodeStream
DecFields(fields, r, acc) ==
  IF fields = <<>> THEN Ok(r, acc)
  ELSE With(Dec(Head(fields), r), LAMBDA d :
         IF d.err # "ok" THEN d
         ELSE DecFields(Tail(fields), d.r, Append(acc, d.val)))

\* array.decodeStream, numeric or coder length: for (i = 0; i < length; i++)
DecArrayN(inner, r, n, acc) ==
  IF n <= 0 THEN Ok(r, acc)
  ELSE With(Dec(inner, r), LAMBDA d :
         IF d.err # "ok" THEN d
         ELSE DecArrayN(inner, d.r, n - 1, Append(acc, d.val)))

\* array.decodeStream, len === null: while (!r.isEnd()).  A pass that leaves the
\* Reader as it found it repeats for ever: "diverges"
DecArrayNull(inner, r, acc) ==
  IF IsEnd(r) THEN Ok(r, acc)
  ELSE With(Dec(inner, r), LAMBDA d :
         IF d.err # "ok" THEN d
         ELSE IF Size(inner) # Undef /\ Size(inner) # 0 /\ LeftBytes(d.r) < Size(inner)
         THEN Ok(d.r, Append(acc, d.val))
         ELSE IF d.r.pos = r.pos /\ d.r.bitPos = r.bitPos THEN Throw(d.r, "diverges")
         ELSE DecArrayNull(inner, d.r, Append(acc, d.val)))

\* array.decodeStream, terminator length: while (true), peek for the terminator
DecArrayTerm(c, r, acc) ==
  With(ReaderBytes(r, Len(c.len.b), TRUE), LAMBDA pk :
    IF pk.err # "ok" THEN pk
    ELSE IF pk.val = c.len.b
    THEN With(ReaderBytes(r, Len(c.len.b), FALSE), LAMBDA t :
           IF t.err # "ok" THEN t ELSE Ok(t.r, acc))
    ELSE With(Dec(c.inner, r), LAMBDA d :
           IF d.err # "ok" THEN d
           ELSE IF d.r.pos = r.pos /\ d.r.bitPos = r.bitPos THEN Throw(d.r, "diverges")
           ELSE DecArrayTerm(c, d.r, Append(acc, d.val))))

\* pointer.decodeStream with inner decoding on the Reader r itself, moved to the
\* offset, instead of on the Reader that offsetReader returns
PointerDecodeStream_sameReader(c, r) ==
  With(Dec(c.ptr, r), LAMBDA p :
    IF p.err # "ok" THEN p
    ELSE IF p.val.t # "int" THEN Throw(p.r, "absBytes")
    ELSE With(EnablePtr(p.r, p.r.pos), LAMBDA e :
         With(OffsetReader(e, p.val.i), LAMBDA o :
           IF o.err # "ok" THEN o
           ELSE With(Dec(c.inner, o.r), LAMBDA d :
                  IF d.err # "ok" THEN d
                  ELSE Ok([d.r EXCEPT !.base = e.base, !.pos = p.val.i + d.r.pos,
                                      !.child = e.child], d.val)))))

\* pointer.decodeStream: ptrVal = ptr.decodeStream(r); r.enablePtr(); return
\* inner.decodeStream(r.offsetReader(ptrVal)).  The child Reader is an object of
\* its own, so r keeps its pos, bitBuf and bitPos; the read bitset is the root's.
PointerDecodeStream(c, r) ==
  With(Dec(c.ptr, r), LAMBDA p :
    IF p.err # "ok" THEN p
    ELSE IF p.val.t # "int" THEN Throw(p.r, "absBytes")
    ELSE With(EnablePtr(p.r, p.r.pos), LAMBDA e :
         With(OffsetReader(e, p.val.i), LAMBDA o :
           IF o.err # "ok" THEN o
           ELSE With(Dec(c.inner, o.r), LAMBDA d :
                  IF d.err # "ok" THEN d
                  ELSE Ok([d.r EXCEPT !.base = e.base, !.pos = e.pos,
                                      !.bitBuf = e.bitBuf, !.bitPos = e.bitPos,
                                      !.child = e.child], d.val)))))

\* flagged.decodeStream once hasFlag is known: if (hasFlag) return
\* inner.decodeStream(r); else if (def) inner.decodeStream(r); return
FlaggedDecodeStream(c, r, hasFlag) ==
  IF Truthy(hasFlag) THEN Dec(c.inner, r)
  ELSE IF Truthy(c.def)
  THEN With(Dec(c.inner, r), LAMBDA d : IF d.err # "ok" THEN d ELSE Ok(d.r, VUndef))
  ELSE Ok(r, VUndef)

\* C.decodeStream(r), C a coder [k |-> kind, ...]: [r, err, val]
Dec(c, r) ==
  CASE c.k = "bigint" -> BigintDecodeStream(c, r)
    [] c.k = "int" -> BigintDecodeStream(c, r)
    [] c.k = "bool" -> BoolDecodeStream(r)
    [] c.k = "bits" -> With(ReaderBits(r, c.len), LAMBDA b :
                         IF b.err # "ok" THEN b ELSE Ok(b.r, VWord(b.val)))
    [] c.k = "bytes" -> BytesDecodeStream(c, r)
    [] c.k = "flag" -> FlagDecodeStream(c, r)
    [] c.k = "constant" -> Ok(r, c.c)
    [] c.k = "optional" ->
         With(Dec(c.flag, r), LAMBDA f :
           IF f.err # "ok" THEN f
           ELSE IF ~f.val.b /\ c.def.t = "undef" THEN Ok(f.r, VUndef)
           ELSE With(Dec(c.inner, f.r), LAMBDA d :
                  IF f.val.b \/ d.err # "ok" THEN d ELSE Ok(d.r, VUndef)))
    [] c.k = "flagged" ->
         IF c.sel.t = "coder"
         THEN With(Dec(c.sel.c, r), LAMBDA f :
                IF f.err # "ok" THEN f ELSE FlaggedDecodeStream(c, f.r, f.val))
         ELSE FlaggedDecodeStream(c, r, VUndef)
    [] c.k = "magic" ->
         With(Dec(c.inner, r), LAMBDA d :
           IF d.err # "ok" THEN d
           ELSE IF \/ (c.check /\ d.val.t \in {"int", "bool", "str", "undef", "word"}
                         /\ d.val # c.constant)
                   \/ (c.constant.t = "bytes" /\ d.val # c.constant)
                THEN Throw(d.r, "magic")
           ELSE Ok(d.r, VUndef))
    [] c.k = "struct" ->
         With(DecFields(c.fields, r, <<>>), LAMBDA d :
           IF d.err # "ok" THEN d ELSE Ok(d.r, VObj(d.val)))
    [] c.k = "tuple" ->
         With(DecFields(c.fields, r, <<>>), LAMBDA d :
           IF d.err # "ok" THEN d ELSE Ok(d.r, VArr(d.val)))
    [] c.k = "array" ->
         With(IF c.len.t = "null" THEN DecArrayNull(c.inner, r, <<>>)
              ELSE IF c.len.t = "term" THEN DecArrayTerm(c, r, <<>>)
              ELSE With(ReaderLength(r, c.len), LAMBDA l :
                     IF l.err # "ok" THEN l ELSE DecArrayN(c.inner, l.r, l.val, <<>>)),
              LAMBDA d : IF d.err # "ok" THEN d ELSE Ok(d.r, VArr(d.val)))
    [] c.k = "prefix" ->
         With(BytesDecodeStream(CBytesOf(c.len), r), LAMBDA b :
           IF b.err # "ok" THEN b
           ELSE With(Dec(c.inner, NewReader(b.val.u8, r.multi, r.unread)), LAMBDA d :
                  IF d.err # "ok" THEN Throw(b.r, d.err)
                  ELSE With(ReaderFinish(d.r), LAMBDA f :
                         IF f.err # "ok" THEN Throw(b.r, f.err) ELSE Ok(b.r, d.val))))
    [] c.k = "pointer" -> PointerDecodeStream(c, r)

\* wrap(...).decode(data, opts): [err, val]
Decode(c, data, multi, unread) ==
  With(Dec(c, NewReader(data, multi, unread)), LAMBDA d :
    IF d.err # "ok" THEN [err |-> d.err, val |-> VUndef]
    ELSE With(ReaderFinish(d.r), LAMBDA f :
           IF f.err # "ok" THEN [err |-> f.err, val |-> VUndef]
           ELSE [err |-> "ok", val |-> d.val]))

-----------------------------------------------------------------------------
(* Writer.  A Writer value w: buf (the concatenation of this.buffers),     *)
(* pos, ptrs (the deferred pointers [pos, ptr, buffer]), bitBuf (an Int32  *)
(* word), bitPos, and the two path stacks.  Operations return [w, err].    *)

NewWriter(path, fieldPath) ==
  [buf |-> <<>>, pos |-> 0, ptrs |-> <<>>, bitBuf |-> {}, bitPos |-> 0,
   path |-> path, fieldPath |-> fieldPath]
NoWriter == NewWriter(<<>>, <<>>)

WOk(w) == [w |-> w, err |-> "ok"]
WThrow(w, why) == [w |-> w, err |-> why]

\* Writer.bytes with this.pos++ in place of this.pos += b.length
WriterBytes_posOne(w, b) ==
  IF w.bitPos # 0 THEN WThrow(w, "bitpos")
  ELSE WOk([w EXCEPT !.buf = @ \o b, !.pos = @ + 1])

\* Writer.bytes(b)
WriterBytes(w, b) ==
  IF w.bitPos # 0 THEN WThrow(w, "bitpos")
  ELSE WOk([w EXCEPT !.buf = @ \o b, !.pos = @ + Len(b)])

\* Writer.byte(b): new Uint8Array([b]) keeps b mod 256
WriterByte(w, b) ==
  IF w.bitPos # 0 THEN WThrow(w, "bitpos")
  ELSE WOk([w EXCEPT !.buf = Append(@, b % 256), !.pos = @ + 1])

\* the loop of Writer.bits: value is a non-negative number given as its word
RECURSIVE WriterBitsLoop(_, _, _)
WriterBitsLoop(w, value, bits) ==
  IF bits = 0 THEN WOk(w)
  ELSE
    LET take == Min(bits, 8 - w.bitPos)
        \* (this.bitBuf << take) | (value >> (bits - take)), on Int32 operands
        bitBuf == Shl(w.bitBuf, take) \cup Sar(value \cap (0 .. 31), bits - take)
        bitPos == w.bitPos + take
        bits1 == bits - take
        value1 == value \cap (0 .. (bits1 - 1))        \* value &= 2 ** bits - 1
        w1 == IF bitPos = 8
              THEN [w EXCEPT !.bitBuf = bitBuf, !.bitPos = 0,
                             !.buf = Append(@, ToUint8(bitBuf)), !.pos = @ + 1]
              ELSE [w EXCEPT !.bitBuf = bitBuf, !.bitPos = bitPos]
    IN WriterBitsLoop(w1, value1, bits1)

\* Writer.bits(value, bits); value >= 2 ** bits: some bit at or above bits is set
WriterBits(w, value, bits) ==
  IF bits > 32 THEN WThrow(w, "bits32")
  ELSE IF \E i \in value : i >= bits THEN WThrow(w, "bitsvalue")
  ELSE WriterBitsLoop(w, value, bits)

-----------------------------------------------------------------------------
(* Coders: records [k |-> kind, ...] holding their parameters; size and    *)
(* encodeStream follow.                                                    *)

\* padLength(blockSize, len)
PadLength(blockSize, len) ==
  IF len % blockSize = 0 THEN 0 ELSE blockSize - (len % blockSize)

\* sizeof(fields) over the sizes of the fields
RECURSIVE SizeofFrom(_, _)
SizeofFrom(sizes, acc) ==
  IF sizes = <<>> THEN acc
  ELSE IF Head(sizes) = Undef THEN Undef
  ELSE SizeofFrom(Tail(sizes), acc + Head(sizes))

\* C.size: Undef when the coder declares none
Size(c) ==
  CASE c.k \in {"bigint", "int"} -> IF c.sized THEN c.size ELSE Undef
    [] c.k = "bool" -> 1
    [] c.k = "bytes" -> IF c.len.t = "num" THEN c.len.n ELSE Undef
    [] c.k = "flag" -> Len(c.flagValue)
    [] c.k = "optional" ->
         IF c.def.t # "undef" /\ Size(c.flag) \notin {Undef, 0}
            /\ Size(c.inner) \notin {Undef, 0}
         THEN Size(c.flag) + Size(c.inner) ELSE Undef
    [] c.k = "magic" -> Size(c.inner)
    [] c.k \in {"struct", "tuple"} ->
         SizeofFrom([i \in 1 .. Len(c.fields) |-> Size(c.fields[i])], 0)
    [] c.k = "prefix" -> IF c.len.t = "num" THEN c.len.n ELSE Undef
    [] c.k = "array" ->
         IF c.len.t = "num" /\ Size(c.inner) \notin {Undef, 0}
         THEN c.len.n * Size(c.inner) ELSE Undef
    [] c.k = "map" -> Size(c.inner)
    [] c.k = "tag" -> Size(c.tag)
    [] c.k = "padLeft" -> Size(c.inner) + PadLength(c.blockSize, Size(c.inner))
    [] c.k = "padRight" ->
         IF Size(c.inner) \notin {Undef, 0}
         THEN Size(c.inner) + PadLength(c.blockSize, Size(c.inner)) ELSE Undef
    [] c.k = "pointer" -> IF c.sized THEN Size(c.ptr) ELSE Undef
    [] OTHER -> Undef          \* bits, constant, flagged, lazy

\* a | b on BigInts (two's complement without a width)
RECURSIVE BigOr(_, _)
BigOr(a, b) ==
  IF a = 0 THEN b
  ELSE IF b = 0 THEN a
  ELSE IF a = 0 - 1 \/ b = 0 - 1 THEN 0 - 1
  ELSE 2 * BigOr(a \div 2, b \div 2) + (IF a % 2 = 1 \/ b % 2 = 1 THEN 1 ELSE 0)

\* b.push(Number(_value & 255n)); _value >>= 8n, size times: least byte first
RECURSIVE LowBytes(_, _)
LowBytes(value, n) ==
  IF n = 0 THEN <<>> ELSE <<value % 256>> \o LowBytes(value \div 256, n - 1)

\* res.subarray(pos), pos the first non-zero byte
RECURSIVE StripZeros(_)
StripZeros(b) == IF b # <<>> /\ Head(b) = 0 THEN StripZeros(Tail(b)) ELSE b

\* bigint(size, le, signed, sized).encodeStream from checkBounds on: [err, bytes]
BigintToBytes(value, size, le, signed, sized) ==
  IF CheckBoundsThrows(value, 8 * size, signed) THEN [err |-> "bounds", bytes |-> <<>>]
  ELSE With(Reverse(LowBytes(IF signed /\ value < 0
                             THEN BigOr(value, Pow2(8 * size - 1)) ELSE value, size)),
            LAMBDA be :
       With(IF sized THEN be ELSE StripZeros(be), LAMBDA res :
         [err |-> "ok", bytes |-> IF le THEN Reverse(res) ELSE res]))

\* bigint(...).encodeStream, and int(...) = apply(bigint(...), coders.number): both
\* throw unless the value is an integer of their type
BigintEncodeStream(c, w, v) ==
  IF v.t # "int" THEN WThrow(w, "type")
  ELSE With(BigintToBytes(v.i, c.size, c.le, c.signed, c.sized), LAMBDA e :
         IF e.err # "ok" THEN WThrow(w, e.err) ELSE WriterBytes(w, e.bytes))

RECURSIVE Enc(_, _, _)
RECURSIVE EncFields(_, _, _, _)
RECURSIVE EncArray(_, _, _, _)
RECURSIVE WriterBuffer(_)
RECURSIVE WriterBufferPtrs(_, _)

\* wrap(...).encode(value): [err, bytes]
Encode(c, v) ==
  With(Enc(c, NewWriter(<<>>, <<>>), v), LAMBDA e :
    IF e.err # "ok" THEN [err |-> e.err, bytes |-> <<>>] ELSE WriterBuffer(e.w))

\* Writer.buffer's loop with the offset taken after the pointee is appended
RECURSIVE WriterBufferPtrs_posAfter(_, _)
WriterBufferPtrs_posAfter(ptrs, buf) ==
  IF ptrs = <<>> THEN [err |-> "ok", bytes |-> buf]
  ELSE With(Head(ptrs), LAMBDA ptr :
       With(Encode(ptr.ptr, VInt(Len(buf) + Len(ptr.buffer))), LAMBDA val :
         IF val.err # "ok" THEN [err |-> val.err, bytes |-> <<>>]
         ELSE WriterBufferPtrs_posAfter(
                Tail(ptrs),
                [i \in 1 .. (Len(buf) + Len(ptr.buffer)) |->
                   IF i - 1 - ptr.pos \in 0 .. (Len(val.bytes) - 1)
                   THEN val.bytes[i - ptr.pos] ELSE (buf \o ptr.buffer)[i]])))

\* the loop of Writer.buffer over this.ptrs[i ..]; a store past the end is dropped
WriterBufferPtrs(ptrs, buf) ==
  IF ptrs = <<>> THEN [err |-> "ok", bytes |-> buf]
  ELSE With(Head(ptrs), LAMBDA ptr :
       With(Encode(ptr.ptr, VInt(Len(buf))), LAMBDA val :
         IF val.err # "ok" THEN [err |-> val.err, bytes |-> <<>>]
         ELSE WriterBufferPtrs(
                Tail(ptrs),
                [i \in 1 .. (Len(buf) + Len(ptr.buffer)) |->
                   IF i - 1 - ptr.pos \in 0 .. (Len(val.bytes) - 1)
                   THEN val.bytes[i - ptr.pos] ELSE (buf \o ptr.buffer)[i]])))

\* Writer.buffer: [err, bytes]
WriterBuffer(w) ==
  IF w.bitPos # 0 THEN [err |-> "bitpos", bytes |-> <<>>]
  ELSE WriterBufferPtrs(w.ptrs, w.buf)

\* the value handed to a struct, tuple or array coder, as the JS object it is:
\* a struct's value carries the field names of its coder
RECURSIVE Named(_, _)
Named(c, v) ==
  CASE c.k = "struct" /\ v.t = "obj" /\ Len(v.o) = Len(c.names) ->
         VRec(c.names, [i \in 1 .. Len(v.o) |-> Named(c.fields[i], v.o[i])])
    [] c.k = "tuple" /\ v.t = "arr" /\ Len(v.a) = Len(c.fields) ->
         VArr([i \in 1 .. Len(v.a) |-> Named(c.fields[i], v.a[i])])
    [] c.k = "array" /\ v.t = "arr" ->
         VArr([i \in 1 .. Len(v.a) |-> Named(c.inner, v.a[i])])
    [] c.k \in {"prefix", "pointer", "padLeft", "padRight"} -> Named(c.inner, v)
    [] OTHER -> v
\* cur[key] of JS for an object, an array or a Uint8Array
JsIndex(cur, key) ==
  CASE cur.t = "rec" ->
         IF \E i \in 1 .. Len(cur.names) : cur.names[i] = key
         THEN cur.o[CHOOSE i \in 1 .. Len(cur.names) : cur.names[i] = key]
         ELSE VUndef
    [] cur.t = "arr" ->
         IF \E i \in 1 .. Len(cur.a) : ToString(i - 1) = key
         THEN cur.a[CHOOSE i \in 1 .. Len(cur.a) : ToString(i - 1) = key]
         ELSE IF key = "length" THEN VInt(Len(cur.a)) ELSE VUndef
    [] cur.t = "bytes" ->
         IF \E i \in 1 .. Len(cur.u8) : ToString(i - 1) = key
         THEN VInt(cur.u8[CHOOSE i \in 1 .. Len(cur.u8) : ToString(i - 1) = key])
         ELSE IF key = "length" THEN VInt(Len(cur.u8)) ELSE VUndef
    [] OTHER -> VUndef
\* getPath: the first loop, the number of leading '..' segments
RECURSIVE LeadingUp(_)
LeadingUp(path) ==
  IF Len(path) > 0 /\ path[1] = ".." THEN 1 + LeadingUp(Tail(path)) ELSE 0
\* getPath: the second loop, from segment i on
RECURSIVE GetPathLoop(_, _, _)
GetPathLoop(cur, path, i) ==
  IF i > Len(path) THEN cur
  ELSE IF ~Truthy(cur) \/ JsIndex(cur, path[i]).t = "undef" THEN VUndef
  ELSE GetPathLoop(JsIndex(cur, path[i]), path, i + 1)
\* getPath with every '..' segment ignored
GetPath_noPop(objPath, path) ==
  GetPathLoop(IF Len(objPath) = 0 THEN VUndef ELSE objPath[Len(objPath)],
              path, LeadingUp(path) + 1)
\* getPath(objPath, path); undefined where a pop finds the stack empty
GetPath(objPath, path) ==
  With(SubSeq(objPath, 1, Len(objPath) - LeadingUp(path)), LAMBDA rest :
    GetPathLoop(IF Len(rest) = 0 THEN VUndef ELSE rest[Len(rest)],
                path, LeadingUp(path) + 1))

\* Writer.length(len, value)
WriterLength(w, len, value) ==
  CASE len.t = "null" -> WOk(w)
    [] len.t = "coder" -> Enc(len.c, w, VInt(value))
    [] len.t = "num" -> IF len.n # value THEN WThrow(w, "length") ELSE WOk(w)
    [] len.t = "path" ->
         With(GetPath(w.path, len.p), LAMBDA byteLen :
           IF byteLen.t # "int" \/ byteLen.i # value THEN WThrow(w, "length")
           ELSE WOk(w))
    [] OTHER -> WThrow(w, "length")

\* bytes(len, le).encodeStream
BytesEncodeStream(c, w, v) ==
  IF v.t # "bytes" THEN WThrow(w, "type")
  ELSE With(IF c.len.t # "term" THEN WriterLength(w, c.len, Len(v.u8)) ELSE WOk(w),
            LAMBDA l :
         IF l.err # "ok" THEN l
         ELSE With(WriterBytes(l.w, IF c.le THEN Reverse(v.u8) ELSE v.u8), LAMBDA b :
                IF b.err # "ok" THEN b
                ELSE IF c.len.t = "term" THEN WriterBytes(b.w, c.len.b)
                ELSE b))

\* the field loop of struct / tuple: fields[i ..] over value[i ..]
EncFields(fields, names, w, vals) ==
  IF fields = <<>> THEN WOk(w)
  ELSE With(Enc(Head(fields), [w EXCEPT !.fieldPath = Append(@, Head(names))],
                IF vals = <<>> THEN VUndef ELSE Head(vals)), LAMBDA e :
         IF e.err # "ok" THEN e
         ELSE EncFields(Tail(fields), Tail(names),
                        [e.w EXCEPT !.fieldPath = SubSeq(@, 1, Len(@) - 1)],
                        IF vals = <<>> THEN <<>> ELSE Tail(vals)))

\* the element loop of array.encodeStream from element i on
EncArray(c, w, vals, i) ==
  IF i > Len(vals) THEN WOk(w)
  ELSE With(Enc(c.inner, [w EXCEPT !.fieldPath = Append(@, ToString(i - 1))], vals[i]),
            LAMBDA e :
         IF e.err # "ok" THEN e
         ELSE IF c.len.t # "term"
              THEN EncArray(c, [e.w EXCEPT !.fieldPath = SubSeq(@, 1, Len(@) - 1)],
                            vals, i + 1)
         ELSE IF Len(c.len.b) > e.w.pos - w.pos
              THEN EncArray(c, e.w, vals, i + 1)          \* continue: no fieldPathPop
         ELSE With(WriterBuffer(e.w), LAMBDA fin :
                IF fin.err # "ok" THEN WThrow(e.w, fin.err)
                ELSE IF SubSeq(SubSeq(fin.bytes, w.pos + 1, e.w.pos), 1, Len(c.len.b))
                        = c.len.b
                     THEN WThrow(e.w, "separator")
                ELSE EncArray(c, [e.w EXCEPT !.fieldPath = SubSeq(@, 1, Len(@) - 1)],
                              vals, i + 1)))

\* the variant of a map / tag: the first entry whose key is key, or none
HasKey(variants, key) == \E i \in 1 .. Len(variants) : variants[i].key = key
Lookup(variants, key) ==
  variants[CHOOSE i \in 1 .. Len(variants) : variants[i].key = key].val

\* padFn = ZeroPad: padBytes zero bytes through Writer.byte
RECURSIVE WritePad(_, _)
WritePad(w, n) ==
  IF n <= 0 THEN WOk(w)
  ELSE With(WriterByte(w, 0), LAMBDA b :
         IF b.err # "ok" THEN b ELSE WritePad(b.w, n - 1))

\* C.encodeStream(w, value): [w, err]
Enc(c, w, v) ==
  CASE c.k \in {"bigint", "int"} -> BigintEncodeStream(c, w, v)
    [] c.k = "bool" -> WriterByte(w, IF Truthy(v) THEN 1 ELSE 0)
    [] c.k = "bits" -> IF v.t # "word" THEN WThrow(w, "type")
                       ELSE WriterBits(w, v.w, c.len)
    [] c.k = "bytes" -> BytesEncodeStream(c, w, v)
    [] c.k = "flag" -> IF Truthy(v) # c.xor THEN WriterBytes(w, c.flagValue) ELSE WOk(w)
    [] c.k = "optional" ->
         With(Enc(c.flag, w, VBool(Truthy(v))), LAMBDA f :
           IF f.err # "ok" THEN f
           ELSE IF Truthy(v) THEN Enc(c.inner, f.w, v)
           ELSE IF c.def.t # "undef" THEN Enc(c.inner, f.w, c.def)
           ELSE f)
    [] c.k = "flagged" ->
         IF c.sel.t = "path"
         THEN IF Truthy(GetPath(w.path, c.sel.p)) THEN Enc(c.inner, w, v)
              ELSE IF Truthy(c.def) THEN Enc(c.inner, w, c.def)
              ELSE WOk(w)
         ELSE With(Enc(c.sel.c, w, VBool(Truthy(v))), LAMBDA f :
                IF f.err # "ok" THEN f
                ELSE IF Truthy(v) THEN Enc(c.inner, f.w, v)
                ELSE IF Truthy(c.def) THEN Enc(c.inner, f.w, c.def)
                ELSE f)
    [] c.k = "magic" -> Enc(c.inner, w, c.constant)
    [] c.k = "constant" -> IF v # c.c THEN WThrow(w, "constant") ELSE WOk(w)
    [] c.k = "struct" ->
         IF v.t # "obj" THEN WThrow(w, "type")
         ELSE With(EncFields(c.fields, c.names, [w EXCEPT !.path = Append(@, Named(c, v))], v.o),
                   LAMBDA e :
                IF e.err # "ok" THEN e
                ELSE WOk([e.w EXCEPT !.path = SubSeq(@, 1, Len(@) - 1)]))
    [] c.k = "tuple" ->
         IF v.t # "arr" THEN WThrow(w, "type")
         ELSE With(EncFields(c.fields, [i \in 1 .. Len(c.fields) |-> ToString(i - 1)],
                             [w EXCEPT !.path = Append(@, Named(c, v))], v.a), LAMBDA e :
                IF e.err # "ok" THEN e
                ELSE WOk([e.w EXCEPT !.path = SubSeq(@, 1, Len(@) - 1)]))
    [] c.k = "prefix" ->
         With(Enc(c.inner, NewWriter(w.path, w.fieldPath), v), LAMBDA ch :
           IF ch.err # "ok" THEN WThrow(w, ch.err)
           ELSE With(WriterBuffer(ch.w), LAMBDA fin :
                  IF fin.err # "ok" THEN WThrow(w, fin.err)
                  ELSE BytesEncodeStream(CBytesOf(c.len),
                                         [w EXCEPT !.path = ch.w.path,
                                                   !.fieldPath = ch.w.fieldPath],
                                         VBytes(fin.bytes))))
    [] c.k = "array" ->
         IF v.t # "arr" THEN WThrow(w, "type")
         ELSE With(IF c.len.t # "term" THEN WriterLength(w, c.len, Len(v.a)) ELSE WOk(w),
                   LAMBDA l :
                IF l.err # "ok" THEN l
                ELSE With(EncArray(c, [l.w EXCEPT !.path = Append(@, Named(c, v))], v.a, 1),
                          LAMBDA e :
                       IF e.err # "ok" THEN e
                       ELSE IF c.len.t = "term"
                            THEN WriterBytes([e.w EXCEPT !.path = SubSeq(@, 1, Len(@) - 1)],
                                             c.len.b)
                       ELSE WOk([e.w EXCEPT !.path = SubSeq(@, 1, Len(@) - 1)])))
    [] c.k = "map" ->
         IF v.t # "str" THEN WThrow(w, "type")
         ELSE IF ~HasKey(c.variants, v.s) THEN WThrow(w, "variant")
         ELSE Enc(c.inner, w, Lookup(c.variants, v.s))
    [] c.k = "tag" ->
         IF v.t # "tag" THEN WThrow(w, "type")
         ELSE IF ~HasKey(c.variants, v.tag) THEN WThrow(w, "tag")
         ELSE With(Enc(c.tag, w, v.tag), LAMBDA e :
                IF e.err # "ok" THEN e ELSE Enc(Lookup(c.variants, v.tag), e.w, v.data))
    [] c.k = "padLeft" ->
         With(WritePad(w, PadLength(c.blockSize, Size(c.inner))), LAMBDA p :
           IF p.err # "ok" THEN p ELSE Enc(c.inner, p.w, v))
    [] c.k = "padRight" ->
         With(Enc(c.inner, w, v), LAMBDA e :
           IF e.err # "ok" THEN e
           ELSE WritePad(e.w, PadLength(c.blockSize, e.w.pos - w.pos)))
    [] c.k = "pointer" ->
         With(Enc(c.ptr, w, VInt(0)), LAMBDA e :
           IF e.err # "ok" THEN e
           ELSE With(Encode(c.inner, v), LAMBDA b :
                  IF b.err # "ok" THEN WThrow(e.w, b.err)
                  ELSE WOk([e.w EXCEPT !.ptrs =
                              Append(@, [pos |-> w.pos, ptr |-> c.ptr,
                                         buffer |-> b.bytes])])))

-----------------------------------------------------------------------------
(* The kernel run: a Reader over an input buffer, or a Writer, driven by   *)
(* any sequence of its calls as the coders make them.  A thrown Error is   *)
(* recorded in rlast / wlast and the object stays usable, as in the        *)
(* library's Reader tests.                                                 *)

ByteVals == {0, 1, 254}
\* the input buffers
ShortData == UNION {[1 .. n -> ByteVals] : n \in 0 .. MaxLen}
\* the lengths a caller passes to bytes(n), and the widths to bits(n)
ReadNs == 0 .. MaxN
BitNs == {1, 7, 9}
Needles == {<<>>, <<0>>, <<1, 254>>}

NoReader == NewReader(<<>>, FALSE, FALSE)
NoCall == [op |-> "none", err |-> "ok"]
Call(op, res) == [op |-> op, err |-> res.err]
NoIo == [k |-> "none"]

\* the widths and values a caller passes to Writer.bits(value, n), values as words
WBitNs == {7, 9}
BitVals(n) == {{}, {0}, 0 .. (n - 1)}

InitKernel ==
  /\ pc \in {"reader", "writer"}
  /\ \E d \in ShortData, multi \in BOOLEAN, unread \in BOOLEAN :
       rd = IF pc = "reader" THEN NewReader(d, multi, unread) ELSE NoReader
  /\ rstack = <<>>
  /\ rlast = NoCall
  /\ wr = NoWriter /\ wlast = NoCall /\ io = NoIo

\* r.byte(peek)
RByte ==
  /\ pc = "reader"
  /\ \E peek \in BOOLEAN :
       LET res == ReaderByte(rd, peek) IN
       /\ rd' = res.r
       /\ rlast' = Call("byte", res)
  /\ UNCHANGED <<pc, rstack, wr, wlast, io>>

\* r.bytes(n, peek)
RBytes ==
  /\ pc = "reader"
  /\ \E n \in ReadNs, peek \in BOOLEAN :
       LET res == ReaderBytes(rd, n, peek) IN
       /\ rd' = res.r
       /\ rlast' = Call("bytes", res)
  /\ UNCHANGED <<pc, rstack, wr, wlast, io>>

\* r.bits(n)
RBits ==
  /\ pc = "reader"
  /\ \E n \in BitNs :
       LET res == ReaderBits(rd, n) IN
       /\ rd' = res.r
       /\ rlast' = Call("bits", res)
  /\ UNCHANGED <<pc, rstack, wr, wlast, io>>

\* r.find(needle)
RFind ==
  /\ pc = "reader"
  /\ \E needle \in Needles :
       LET res == ReaderFind(rd, needle) IN
       /\ rd' = res.r
       /\ rlast' = Call("find", res)
  /\ UNCHANGED <<pc, rstack, wr, wlast, io>>

\* bytes(I8).decodeStream(r): the length read in-line by a signed coder, then
\* r.bytes(length)
RLenBytes ==
  /\ pc = "reader"
  /\ LET res == Dec(CBytesOf(LCoder(I8)), rd)
     IN /\ rd' = res.r
        /\ rlast' = Call("lenbytes", res)
  /\ UNCHANGED <<pc, rstack, wr, wlast, io>>

\* the saved fields of a parent Reader
Saved(r) == [base |-> r.base, pos |-> r.pos, bitBuf |-> r.bitBuf, bitPos |-> r.bitPos,
             child |-> r.child]
RootPos(r, stack) == IF stack = <<>> THEN r.pos ELSE stack[1].pos

\* pointer(U8, inner).decodeStream(r) up to the call of inner: ptr.decodeStream(r),
\* r.enablePtr(), r.offsetReader(ptrVal); then inner runs on the child Reader
RPtr ==
  /\ pc = "reader"
  /\ Len(rstack) < MaxDepth
  /\ LET p == Dec(U8, rd)
         e == EnablePtr(p.r, RootPos(p.r, rstack))
         o == OffsetReader(e, p.val.i)
     IN IF p.err # "ok"
        THEN rd' = p.r /\ rlast' = Call("ptr", p) /\ UNCHANGED rstack
        ELSE IF o.err # "ok"
        THEN rd' = o.r /\ rlast' = Call("ptr", o) /\ UNCHANGED rstack
        ELSE rd' = o.r /\ rlast' = Call("ptr", o)
             /\ rstack' = Append(rstack, Saved(e))
  /\ UNCHANGED <<pc, wr, wlast, io>>

\* inner.decodeStream(child) returns: the parent Reader is in use again
RPtrReturn ==
  /\ pc = "reader"
  /\ rstack # <<>>
  /\ LET s == rstack[Len(rstack)] IN
       rd' = [rd EXCEPT !.base = s.base, !.pos = s.pos, !.bitBuf = s.bitBuf,
                        !.bitPos = s.bitPos, !.child = s.child]
  /\ rstack' = SubSeq(rstack, 1, Len(rstack) - 1)
  /\ rlast' = [NoCall EXCEPT !.op = "return"]
  /\ UNCHANGED <<pc, wr, wlast, io>>

\* wrap(...).decode: r.finish() on the root Reader after the top-level decodeStream
RFinish ==
  /\ pc = "reader"
  /\ rstack = <<>>
  /\ rlast' = Call("finish", ReaderFinish(rd))
  /\ UNCHANGED <<pc, rd, rstack, wr, wlast, io>>

\* w.byte(b)
WByte ==
  /\ pc = "writer"
  /\ Len(wr.buf) < MaxOut
  /\ \E b \in ByteVals :
       LET res == WriterByte(wr, b) IN
       /\ wr' = res.w
       /\ wlast' = Call("byte", res)
  /\ UNCHANGED <<pc, rd, rstack, rlast, io>>

\* w.bytes(b)
WBytes ==
  /\ pc = "writer"
  /\ Len(wr.buf) < MaxOut
  /\ \E b \in ShortData :
       LET res == WriterBytes(wr, b) IN
       /\ wr' = res.w
       /\ wlast' = Call("bytes", res)
  /\ UNCHANGED <<pc, rd, rstack, rlast, io>>

\* w.bits(value, n)
WBits ==
  /\ pc = "writer"
  /\ Len(wr.buf) < MaxOut
  /\ \E n \in WBitNs : \E value \in BitVals(n) :
       LET res == WriterBits(wr, value, n) IN
       /\ wr' = res.w
       /\ wlast' = Call("bits", res)
  /\ UNCHANGED <<pc, rd, rstack, rlast, io>>

\* w.buffer
WBuffer ==
  /\ pc = "writer"
  /\ wlast' = Call("buffer", WriterBuffer(wr))
  /\ UNCHANGED <<pc, rd, rstack, rlast, wr, io>>

NextKernel ==
  \/ RByte \/ RBytes \/ RBits \/ RFind \/ RLenBytes \/ RPtr \/ RPtrReturn \/ RFinish
  \/ WByte \/ WBytes \/ WBits \/ WBuffer

SpecKernel == InitKernel /\ [][NextKernel]_vars

-----------------------------------------------------------------------------
(* Properties of the kernel run *)

\* C1: with allowMultipleReads off and allowUnreadBytes off, no decode whose
\* calls all succeeded, and whose finish succeeded, returned some input byte
\* from two non-peek reads once pointer tracking was on.
C1_AtMostOnceReads ==
  pc = "reader" /\ rlast.op = "finish" /\ rlast.err = "ok"
    /\ ~rd.thrown /\ ~rd.multi /\ ~rd.unread
  => ~rd.dup

\* C2: while bitPos # 0, Reader.byte / bytes / find (peek or not) throw and leave
\* pos, bitPos, bitBuf and the bitset as they were, and Writer.byte / bytes /
\* buffer throw and leave the Writer as it was; with bitPos = 0 none of them
\* throws for alignment, and the Writer's three succeed.
C2_BitAlignment ==
  [][ /\ (pc = "reader" /\ rlast'.op \in {"byte", "bytes", "find"}) =>
           IF rd.bitPos # 0
           THEN /\ rlast'.err = "bitpos"
                /\ rd'.pos = rd.pos /\ rd'.bitPos = rd.bitPos
                /\ rd'.bitBuf = rd.bitBuf /\ rd'.bs = rd.bs
           ELSE rlast'.err # "bitpos"
      /\ (pc = "writer" /\ wlast'.op \in {"byte", "bytes", "buffer"}) =>
           IF wr.bitPos # 0
           THEN wlast'.err = "bitpos" /\ wr' = wr
           ELSE wlast'.err = "ok"
    ]_vars

\* C2 witness: a bytes() call has just thrown on a Reader stopped inside a byte
C2_Witness ==
  pc = "reader" /\ rlast.op = "bytes" /\ rlast.err = "bitpos" /\ rd.bitPos # 0

\* byte p of the input is marked in the read bitset
Marked(bs, p) == (31 - (p % 32)) \in bs[(p \div 32) + 1]

\* C3: finish() after the top-level decodeStream succeeds exactly when
\* allowUnreadBytes is set, or bitPos = 0 and (bitset on) every input byte is
\* marked, whatever pos is, or (bitset off) pos = len(data).
C3_EndOfInput ==
  pc = "reader" /\ rlast.op = "finish" =>
    (rlast.err = "ok" <=>
       \/ rd.unread
       \/ /\ rd.bitPos = 0
          /\ IF rd.bsOn
             THEN \A p \in 0 .. (Len(rd.data) - 1) : Marked(rd.bs, p)
             ELSE rd.pos = Len(rd.data))

\* C3 witness: finish() succeeded with tracking on and pos short of the end
C3_Witness ==
  /\ pc = "reader" /\ rlast.op = "finish" /\ rlast.err = "ok"
  /\ ~rd.unread /\ rd.bsOn /\ rd.pos < Len(rd.data)

\* C7: pos never exceeds this.data.length, for the Reader in use and its
\* parents, and from every reachable Reader a byte(), bytes(n) or bits(n) that
\* needs bytes past the end throws.
C7_CursorBound ==
  pc = "reader" =>
    /\ rd.pos <= DataLen(rd)
    /\ \A i \in 1 .. Len(rstack) : rstack[i].pos <= Len(rd.data) - rstack[i].base
    /\ \A n \in ReadNs, peek \in BOOLEAN :
         rd.pos + n > DataLen(rd) => ReaderBytes(rd, n, peek).err # "ok"
    /\ \A peek \in BOOLEAN :
         rd.pos + 1 > DataLen(rd) => ReaderByte(rd, peek).err # "ok"
    /\ \A n \in BitNs :
         rd.pos * 8 + n - rd.bitPos > DataLen(rd) * 8 => ReaderBits(rd, n).err # "ok"

\* C7 witness: a bytes(n) past the end has just thrown with the cursor inside
\* a non-empty buffer
C7_Witness ==
  /\ pc = "reader" /\ rlast.op = "bytes" /\ rlast.err = "eof"
  /\ rd.pos > 0 /\ rd.pos < DataLen(rd)

\* C8: when the in-line length coder of bytes(I8) reads a negative length, the
\* decode throws and pos does not move backwards.
C8_NonNegativeLength ==
  [][ (pc = "reader" /\ rlast'.op = "lenbytes"
       /\ ReaderLength(rd, LCoder(I8)).err = "ok"
       /\ ReaderLength(rd, LCoder(I8)).val < 0)
      => (rlast'.err # "ok" /\ rd'.pos >= rd.pos) ]_vars

-----------------------------------------------------------------------------
(* The integer run: one sized bigint / int coder encodes one integer, and  *)
(* decodes the bytes when the encoding succeeded.                          *)

\* the integers offered to an integer coder of size bytes: around every bound of
\* both ranges, and values whose bytes all differ
IntVals(size) ==
  LET b == 8 * size
  IN { 0 - Pow2(b - 1) - 1, 0 - Pow2(b - 1), 1 - Pow2(b - 1), 0 - 258, 0 - 2, 0 - 1,
       0, 1, 2, 127, 128, 258, Pow2(b - 1) - 1, Pow2(b - 1), Pow2(b) - 2,
       Pow2(b) - 1, Pow2(b), Pow2(b) + 1 }

IntCoders ==
  { [k |-> kind, size |-> size, le |-> le, signed |-> signed, sized |-> TRUE] :
      kind \in {"bigint", "int"}, size \in 1 .. MaxIntSize,
      le \in BOOLEAN, signed \in BOOLEAN }

NoRes == [err |-> "none", bytes |-> <<>>]
NoVal == [err |-> "none", val |-> VUndef]

InitInt ==
  /\ pc = "int"
  /\ \E c \in IntCoders : \E v \in IntVals(c.size) :
       io = [k |-> "int", c |-> c, v |-> v, phase |-> "new", enc |-> NoRes, dec |-> NoVal]
  /\ rd = NoReader /\ rstack = <<>> /\ rlast = NoCall
  /\ wr = NoWriter /\ wlast = NoCall

\* C.encode(v)
IntEncode ==
  /\ pc = "int" /\ io.phase = "new"
  /\ io' = [io EXCEPT !.phase = "encoded", !.enc = Encode(io.c, VInt(io.v))]
  /\ UNCHANGED <<pc, rd, rstack, rlast, wr, wlast>>

\* C.decode(C.encode(v))
IntDecode ==
  /\ pc = "int" /\ io.phase = "encoded" /\ io.enc.err = "ok"
  /\ io' = [io EXCEPT !.phase = "decoded",
                      !.dec = Decode(io.c, io.enc.bytes, FALSE, FALSE)]
  /\ UNCHANGED <<pc, rd, rstack, rlast, wr, wlast>>

NextInt == IntEncode \/ IntDecode

SpecInt == InitInt /\ [][NextInt]_vars

\* the range of a size-byte integer
InRange(v, size, signed) ==
  IF signed THEN 0 - Pow2(8 * size - 1) <= v /\ v < Pow2(8 * size - 1)
  ELSE 0 <= v /\ v < Pow2(8 * size)

\* v in two's complement on size bytes, most significant byte first
TwosComplementBE(v, size) ==
  [i \in 1 .. size |-> ((v % Pow2(8 * size)) \div Pow2(8 * (size - i))) % 256]

\* C4: a sized integer coder encodes exactly the integers of its range; the
\* output is size bytes of two's complement in the declared byte order, the
\* little-endian output being the reverse of the big-endian coder's; and the
\* decode of the output is the integer.
C4_IntegerCodec ==
  pc = "int" =>
    /\ io.phase # "new" =>
         /\ io.enc.err = "ok" <=> InRange(io.v, io.c.size, io.c.signed)
         /\ io.enc.err = "ok" =>
              /\ Len(io.enc.bytes) = io.c.size
              /\ io.enc.bytes = IF io.c.le
                                THEN Reverse(TwosComplementBE(io.v, io.c.size))
                                ELSE TwosComplementBE(io.v, io.c.size)
              /\ io.c.le =>
                   io.enc.bytes =
                     Reverse(Encode([io.c EXCEPT !.le = FALSE], VInt(io.v)).bytes)
    /\ io.phase = "decoded" => io.dec = [err |-> "ok", val |-> VInt(io.v)]

\* C4 witness: a negative integer went through a little-endian signed
\* two-byte coder and came back
C4_Witness ==
  /\ pc = "int" /\ io.phase = "decoded" /\ io.dec.err = "ok"
  /\ io.v < 0 - 1 /\ io.c.le /\ io.c.signed /\ io.c.size = 2

-----------------------------------------------------------------------------
(* The bit-field run: fields (v, n) are written with Writer.bits, the      *)
(* Writer is finalized when the widths add up to whole bytes, and the      *)
(* fields are read back with Reader.bits over the bytes written.           *)

FieldWidths == {1, 7, 8, 32}
\* the values of an n-bit field, as words: 0, 1, 2^(n-1), 2^n - 1
FieldVals(n) == {{}, {0}, {n - 1}, 0 .. (n - 1)}

RECURSIVE TotalBits(_)
TotalBits(fields) ==
  IF fields = <<>> THEN 0 ELSE Head(fields).n + TotalBits(Tail(fields))

InitBits ==
  /\ pc = "bitsw"
  /\ io = [k |-> "bits", fields |-> <<>>, out |-> <<>>, err |-> "ok"]
  /\ rd = NoReader /\ rstack = <<>> /\ rlast = NoCall
  /\ wr = NoWriter /\ wlast = NoCall

\* w.bits(v, n) with 0 <= v < 2^n
BWrite ==
  /\ pc = "bitsw" /\ io.err = "ok"
  /\ Len(io.fields) < MaxFields
  /\ \E n \in FieldWidths : \E v \in FieldVals(n) :
       LET res == WriterBits(wr, v, n) IN
       /\ wr' = res.w
       /\ wlast' = Call("bits", res)
       /\ io' = [io EXCEPT !.fields = Append(@, [v |-> v, n |-> n]), !.err = res.err]
  /\ UNCHANGED <<pc, rd, rstack, rlast>>

\* w.buffer once the widths add up to whole bytes; a Reader is made over it
BFinal ==
  /\ pc = "bitsw" /\ io.err = "ok"
  /\ io.fields # <<>> /\ TotalBits(io.fields) % 8 = 0
  /\ LET fin == WriterBuffer(wr) IN
       /\ wlast' = Call("buffer", fin)
       /\ io' = [io EXCEPT !.err = fin.err]
       /\ rd' = NewReader(fin.bytes, FALSE, FALSE)
  /\ pc' = "bitsr"
  /\ UNCHANGED <<rstack, rlast, wr>>

\* r.bits(n) for the next field
BRead ==
  /\ pc = "bitsr" /\ io.err = "ok"
  /\ Len(io.out) < Len(io.fields)
  /\ LET res == ReaderBits(rd, io.fields[Len(io.out) + 1].n) IN
       /\ rd' = res.r
       /\ rlast' = Call("bits", res)
       /\ io' = [io EXCEPT !.out = Append(@, res.val), !.err = res.err]
  /\ UNCHANGED <<pc, rstack, wr, wlast>>

NextBits == BWrite \/ BFinal \/ BRead

SpecBits == InitBits /\ [][NextBits]_vars

\* the bits of the fields in writing order, each field most significant bit first
RECURSIVE BitString(_)
BitString(fields) ==
  IF fields = <<>> THEN <<>>
  ELSE LET f == Head(fields)
       IN [j \in 1 .. f.n |-> IF (f.n - j) \in f.v THEN 1 ELSE 0] \o BitString(Tail(fields))

\* the bytes of a bit string of whole bytes, first bit = most significant bit
PackedBytes(bits) ==
  [b \in 1 .. (Len(bits) \div 8) |->
     bits[8 * b - 7] * 128 + bits[8 * b - 6] * 64 + bits[8 * b - 5] * 32
     + bits[8 * b - 4] * 16 + bits[8 * b - 3] * 8 + bits[8 * b - 2] * 4
     + bits[8 * b - 1] * 2 + bits[8 * b]]

\* C5: fields written with Writer.bits and finalized give the bytes of their
\* concatenated big-endian bit strings, and Reader.bits over those bytes
\* returns each field and ends with bitPos = 0 at the end of the buffer.
C5_BitPackingRoundTrip ==
  pc = "bitsr" =>
    /\ io.err = "ok"
    /\ rd.data = PackedBytes(BitString(io.fields))
    /\ \A i \in 1 .. Len(io.out) : io.out[i] = io.fields[i].v
    /\ Len(io.out) = Len(io.fields) => rd.bitPos = 0 /\ rd.pos = Len(rd.data)

-----------------------------------------------------------------------------
(* The size run: one coder with a declared size encodes one value.         *)

U16 == CInt(2, FALSE, FALSE)
AB == <<[key |-> "a", val |-> VInt(1)], [key |-> "b", val |-> VInt(2)]>>
Flag1 == CFlag(<<1>>, FALSE)

\* coders whose size is defined, one or two of each kind the library builds
SizedCoders ==
  { U8, I8, U16, CBigint(2, TRUE, TRUE), CBool, CBytesOf(LNum(2)),
    Flag1, CFlag(<<1, 254>>, TRUE),
    CMagic(U8, VInt(7)), CMagic(CBytesOf(LNum(2)), VBytes(<<1, 254>>)),
    CMap(U8, AB), CMap(U16, AB),
    CTag(U8, <<[key |-> VInt(1), val |-> U8], [key |-> VInt(2), val |-> CBool]>>),
    COptional(Flag1, U8, VInt(0)), COptional(CBool, U8, VInt(1)),
    CPointer(U8, U8, TRUE), CPointer(U16, CBytesOf(LNull), TRUE),
    CPadLeft(4, U8), CPadLeft(2, U16), CPadRight(4, U8), CPadRight(2, CBytesOf(LNum(2))),
    CPrefix(LNum(2), U16), CPrefix(LNum(2), CBytesOf(LNull)),
    CStruct(<<"a", "b">>, <<U8, U16>>), CStruct(<<"a", "b">>, <<CBool, Flag1>>),
    CTuple(<<U8, CBool>>), CTuple(<<CPadLeft(2, U8), CMagic(U8, VInt(7))>>),
    CArray(LNum(2), U8), CArray(LNum(2), CTuple(<<U8, CBool>>)) }

\* the values offered to every coder: most are of the wrong type for it
SizeVals ==
  { VUndef, VBool(FALSE), VBool(TRUE), VInt(0), VInt(1), VInt(2), VInt(255), VInt(256),
    VInt(0 - 1), VBytes(<<>>), VBytes(<<1, 254>>), VBytes(<<0, 0>>),
    VStr("a"), VStr("b"), VStr("z"),
    VTag(VInt(1), VInt(5)), VTag(VInt(2), VBool(TRUE)), VTag(VInt(3), VInt(5)),
    VObj(<<VInt(1), VInt(2)>>), VObj(<<VBool(TRUE), VBool(FALSE)>>),
    VObj(<<VBool(TRUE), VBool(TRUE)>>),
    VArr(<<VInt(1), VBool(TRUE)>>), VArr(<<VInt(1), VInt(2)>>), VArr(<<VInt(1), VUndef>>),
    VArr(<<VArr(<<VInt(1), VBool(TRUE)>>), VArr(<<VInt(2), VBool(FALSE)>>)>>),
    VArr(<<VInt(1)>>), VArr(<<>>) }

InitSize ==
  /\ pc = "size"
  /\ \E c \in SizedCoders, v \in SizeVals :
       io = [k |-> "size", c |-> c, v |-> v, phase |-> "new", enc |-> NoRes]
  /\ rd = NoReader /\ rstack = <<>> /\ rlast = NoCall
  /\ wr = NoWriter /\ wlast = NoCall

\* C.encode(v)
SizeEncode ==
  /\ pc = "size" /\ io.phase = "new"
  /\ io' = [io EXCEPT !.phase = "encoded", !.enc = Encode(io.c, io.v)]
  /\ UNCHANGED <<pc, rd, rstack, rlast, wr, wlast>>

NextSize == SizeEncode

SpecSize == InitSize /\ [][NextSize]_vars

\* C6: when C.size is defined, every successful C.encode(v) returns exactly
\* C.size bytes.
C6_SizeConsistency ==
  (pc = "size" /\ io.phase = "encoded" /\ Size(io.c) # Undef /\ io.enc.err = "ok")
    => Len(io.enc.bytes) = Size(io.c)

\* ------------------------------------------------------------------------
\* array(null, inner).decode(data), one pass of the while loop per step

ArrayInners ==
  { U8, U16, CBool, CBits(1), CBytesOf(LCoder(U8)), CBytesOf(LNull), CBytesOf(LNum(0)),
    Flag1, CConstant(VInt(7)), CMagic(U8, VInt(1)),
    COptional(Flag1, U8, VUndef), COptional(CBool, U8, VUndef) }

\* the most elements an input can hold: one per bit
ElemCap(r) == 8 * Len(r.data)

InitArray ==
  /\ pc = "array"
  /\ \E data \in ShortData, c \in ArrayInners :
       /\ rd = NewReader(data, FALSE, FALSE)
       /\ io = [k |-> "array", inner |-> c, n |-> 0, phase |-> "loop", err |-> "ok"]
  /\ rstack = <<>> /\ rlast = NoCall
  /\ wr = NoWriter /\ wlast = NoCall

\* while (!r.isEnd()) { res.push(inner.decodeStream(r));
\*                      if (inner.size && r.leftBytes < inner.size) break; }
AElem ==
  /\ pc = "array" /\ io.phase = "loop"
  /\ ~IsEnd(rd)
  /\ io.n <= ElemCap(rd)
  /\ With(Dec(io.inner, rd), LAMBDA d :
       /\ rd' = d.r
       /\ io' = IF d.err # "ok"
                THEN [io EXCEPT !.n = @ + 1, !.phase = "done", !.err = d.err]
                ELSE IF Size(io.inner) # Undef /\ Size(io.inner) # 0
                        /\ LeftBytes(d.r) < Size(io.inner)
                THEN [io EXCEPT !.n = @ + 1, !.phase = "done"]
                ELSE [io EXCEPT !.n = @ + 1])
  /\ UNCHANGED <<pc, rstack, rlast, wr, wlast>>

\* the loop condition fails: r.isEnd()
AEnd ==
  /\ pc = "array" /\ io.phase = "loop"
  /\ IsEnd(rd)
  /\ io' = [io EXCEPT !.phase = "done"]
  /\ UNCHANGED <<pc, rd, rstack, rlast, wr, wlast>>

\* wrap(...).decode: r.finish() after decodeStream returned
AFinish ==
  /\ pc = "array" /\ io.phase = "done" /\ io.err = "ok"
  /\ With(ReaderFinish(rd), LAMBDA f :
       /\ rd' = f.r
       /\ rlast' = Call("finish", f)
       /\ io' = [io EXCEPT !.phase = "finished", !.err = f.err])
  /\ UNCHANGED <<pc, rstack, wr, wlast>>

NextArray == AElem \/ AEnd \/ AFinish

SpecArray == InitArray /\ [][NextArray]_vars

\* C9: decoding array(null, inner) ends after a number of element decodes that
\* the input length bounds (at most one element per input bit), whatever the
\* inner coder.
C9_BoundedArrayDecode ==
  pc = "array" => io.n <= ElemCap(rd)

\* ------------------------------------------------------------------------
\* L = pointer(U8, lazy(() => L)) and arrays of L, one dereference per step.
\* L.decodeStream returns only what its inner L returns, so no step returns
\* from a dereference: the chain ends when a read or offsetReader throws.

CycleVariants == {"L", "arrayU8", "arrayNull"}

InitCycle ==
  /\ pc = "cycle"
  /\ \E data \in ShortData, variant \in CycleVariants, unread \in BOOLEAN :
       /\ rd = NewReader(data, FALSE, unread)
       /\ io = [k |-> "cycle", variant |-> variant,
                phase |-> IF variant = "L" THEN "ptr" ELSE "start",
                len |-> 0, elems |-> 0, derefs |-> 0, err |-> "ok"]
  /\ rstack = <<>> /\ rlast = NoCall
  /\ wr = NoWriter /\ wlast = NoCall

\* array(U8, L): const length = r.length(len); array(null, L): nothing is read
CStart ==
  /\ pc = "cycle" /\ io.phase = "start"
  /\ IF io.variant = "arrayNull"
     THEN /\ io' = [io EXCEPT !.phase = "elems"]
          /\ UNCHANGED rd
     ELSE With(ReaderLength(rd, LCoder(U8)), LAMBDA l :
            /\ rd' = l.r
            /\ io' = IF l.err # "ok" THEN [io EXCEPT !.phase = "done", !.err = l.err]
                     ELSE [io EXCEPT !.phase = "elems", !.len = l.val])
  /\ UNCHANGED <<pc, rstack, rlast, wr, wlast>>

\* the loop test before the first element: i < length, or !r.isEnd()
CElem ==
  /\ pc = "cycle" /\ io.phase = "elems"
  /\ io' = IF (io.variant = "arrayU8" /\ io.elems < io.len)
               \/ (io.variant = "arrayNull" /\ ~IsEnd(rd))
           THEN [io EXCEPT !.phase = "ptr", !.elems = @ + 1]
           ELSE [io EXCEPT !.phase = "finish"]
  /\ UNCHANGED <<pc, rd, rstack, rlast, wr, wlast>>

\* L.decodeStream(r): ptr.decodeStream(r); r.enablePtr(); r.offsetReader(ptrVal),
\* then the inner L runs on the child Reader: [rd, rstack, rlast, io] afterwards
Deref(r, stack, c) ==
  With(Dec(U8, r), LAMBDA p :
    IF p.err # "ok"
    THEN [rd |-> p.r, rstack |-> stack, rlast |-> Call("ptr", p),
          io |-> [c EXCEPT !.phase = "done", !.err = p.err]]
    ELSE With(EnablePtr(p.r, RootPos(p.r, stack)), LAMBDA e :
         With(OffsetReader(e, p.val.i), LAMBDA o :
           IF o.err # "ok"
           THEN [rd |-> o.r, rstack |-> stack, rlast |-> Call("ptr", o),
                 io |-> [c EXCEPT !.phase = "done", !.err = o.err]]
           ELSE [rd |-> o.r, rstack |-> Append(stack, Saved(e)),
                 rlast |-> Call("ptr", o),
                 io |-> [c EXCEPT !.derefs = @ + 1]])))

CDeref ==
  /\ pc = "cycle" /\ io.phase = "ptr"
  /\ io.derefs <= Len(rd.data)
  /\ rd' = Deref(rd, rstack, io).rd
  /\ rstack' = Deref(rd, rstack, io).rstack
  /\ rlast' = Deref(rd, rstack, io).rlast
  /\ io' = Deref(rd, rstack, io).io
  /\ UNCHANGED <<pc, wr, wlast>>

\* an array without elements: wrap(...).decode calls r.finish()
CFinish ==
  /\ pc = "cycle" /\ io.phase = "finish"
  /\ With(ReaderFinish(rd), LAMBDA f :
       /\ rd' = f.r
       /\ rlast' = Call("finish", f)
       /\ io' = [io EXCEPT !.phase = "done", !.err = f.err])
  /\ UNCHANGED <<pc, rstack, wr, wlast>>

NextCycle == CStart \/ CElem \/ CDeref \/ CFinish

SpecPtrCycle == InitCycle /\ [][NextCycle]_vars

\* C10 as stated: with allowMultipleReads unset, decoding L or an array of L
\* ends with an error on every input.
C10_AlwaysError ==
  (pc = "cycle" /\ io.phase = "done") => io.err # "ok"

\* what is left to do: the dereferences the input still allows, then the phase
CycleRank ==
  4 * (Len(rd.data) + 1 - io.derefs)
    + (CASE io.phase = "start" -> 3
         [] io.phase = "elems" -> 2
         [] io.phase \in {"ptr", "finish"} -> 1
         [] OTHER -> 0)

\* C10 amended: the decode always ends (every step lowers a non-negative rank),
\* after at most len(input) dereferences; it ends with an error whenever a
\* pointer was to be decoded, that is for L itself and for every array of L
\* that has an element.
C10_PointerCyclesTerminate ==
  /\ [](pc = "cycle" =>
          /\ io.derefs <= Len(rd.data)
          /\ (io.phase = "done" /\ (io.variant = "L" \/ io.elems > 0)) => io.err # "ok")
  /\ [][pc = "cycle" => (CycleRank' < CycleRank /\ CycleRank' >= 0)]_vars

\* a chain of pointers that spends every input byte before the repeated read
C10_Witness ==
  /\ pc = "cycle" /\ io.phase = "done" /\ io.err = "multi"
  /\ io.derefs = Len(rd.data) /\ io.derefs >= 2

\* ------------------------------------------------------------------------
\* A Writer that receives body bytes and pointer registrations, then w.buffer

MaxPtrs == 2
MaxCalls == 2      \* setRange calls made on one bitset

\* pointer placeholders and the pointees registered with them
PtrCoders == {U8, U16}
Pointees ==
  { [c |-> U8, v |-> VInt(1)], [c |-> U8, v |-> VInt(254)],
    [c |-> CBytesOf(LNull), v |-> VBytes(<<>>)],
    [c |-> CBytesOf(LNull), v |-> VBytes(<<1, 254>>)] }
ArrVals == UNION {[1 .. n -> {VInt(1), VInt(254)}] : n \in 0 .. MaxPtrs}

InitPtrWrite ==
  /\ pc = "ptrw"
  /\ io = [k |-> "ptrw", phase |-> "build", arr |-> <<>>, isArr |-> FALSE, out |-> NoRes]
  /\ rd = NoReader /\ rstack = <<>> /\ rlast = NoCall
  /\ wr = NoWriter /\ wlast = NoCall

\* w.byte(b) into the main body
PWByte ==
  /\ pc = "ptrw" /\ io.phase = "build"
  /\ Len(wr.buf) <= MaxOut
  /\ \E b \in ByteVals :
       With(WriterByte(wr, b), LAMBDA res :
         wr' = res.w /\ wlast' = Call("byte", res))
  /\ UNCHANGED <<pc, rd, rstack, rlast, io>>

\* pointer(p, x).encodeStream(w, v)
PWPointer ==
  /\ pc = "ptrw" /\ io.phase = "build"
  /\ Len(wr.ptrs) < MaxPtrs
  /\ \E p \in PtrCoders, x \in Pointees :
       With(Enc(CPointer(p, x.c, FALSE), wr, x.v), LAMBDA res :
         wr' = res.w /\ wlast' = Call("pointer", res))
  /\ UNCHANGED <<pc, rd, rstack, rlast, io>>

\* array(U8, pointer(U16BE, U8)).encodeStream(w, vals) on the fresh Writer
PWArray ==
  /\ pc = "ptrw" /\ io.phase = "build"
  /\ wr = NoWriter
  /\ \E vals \in ArrVals :
       With(Enc(CArray(LCoder(U8), CPointer(U16, U8, FALSE)), wr, VArr(vals)),
            LAMBDA res :
         /\ wr' = res.w /\ wlast' = Call("array", res)
         /\ io' = [io EXCEPT !.arr = vals, !.isArr = TRUE, !.phase = "built"])
  /\ UNCHANGED <<pc, rd, rstack, rlast>>

\* w.buffer
PWBuffer ==
  /\ pc = "ptrw" /\ io.phase \in {"build", "built"}
  /\ io' = [io EXCEPT !.phase = "done", !.out = WriterBuffer(wr)]
  /\ wlast' = Call("buffer", WriterBuffer(wr))
  /\ UNCHANGED <<pc, rd, rstack, rlast, wr>>

NextPtrWrite == PWByte \/ PWPointer \/ PWArray \/ PWBuffer

SpecPtrWrite == InitPtrWrite /\ [][NextPtrWrite]_vars

\* buf_1 ++ ... ++ buf_k
RECURSIVE PointeeBytes(_)
PointeeBytes(ptrs) ==
  IF ptrs = <<>> THEN <<>> ELSE Head(ptrs).buffer \o PointeeBytes(Tail(ptrs))

\* len(B) + the lengths of the pointees before entry i
PointeeOffset(B, ptrs, i) == Len(B) + Len(PointeeBytes(SubSeq(ptrs, 1, i - 1)))

\* B with each placeholder [p_i, p_i + size_i) holding coder_i.encode(offset_i)
Patched(B, ptrs) ==
  [q \in 1 .. Len(B) |->
     IF \E i \in 1 .. Len(ptrs) : q - 1 - ptrs[i].pos \in 0 .. (Size(ptrs[i].ptr) - 1)
     THEN LET i == CHOOSE j \in 1 .. Len(ptrs) :
                     q - 1 - ptrs[j].pos \in 0 .. (Size(ptrs[j].ptr) - 1)
          IN Encode(ptrs[i].ptr, VInt(PointeeOffset(B, ptrs, i))).bytes[q - ptrs[i].pos]
     ELSE B[q]]

\* length, placeholders in element order (U16BE), pointees in element order
ArrayOfPointers(vals) ==
  <<Len(vals)>>
    \o [q \in 1 .. 2 * Len(vals) |->
          IF q % 2 = 1 THEN 0 ELSE 1 + 2 * Len(vals) + (q \div 2) - 1]
    \o [i \in 1 .. Len(vals) |-> vals[i].i]

RECURSIVE Chain(_, _, _)
Chain(depth, p, x) == IF depth = 0 THEN x ELSE CPointer(p, Chain(depth - 1, p, x), FALSE)

ChainCoders ==
  {Chain(d, p, U8) : d \in 1 .. (MaxDepth + 1), p \in PtrCoders}
    \cup {CArray(LCoder(U8), Chain(d, p, U8)) : d \in 1 .. MaxDepth, p \in PtrCoders}
ChainVals(c) == IF c.k = "array" THEN {VArr(a) : a \in ArrVals} ELSE {VInt(1), VInt(254)}

InitChain ==
  /\ pc = "chain"
  /\ \E c \in ChainCoders : \E v \in ChainVals(c) :
       io = [k |-> "chain", c |-> c, v |-> v, phase |-> "new", enc |-> NoRes,
             dec |-> NoVal, cur |-> c, n |-> 0, hops |-> <<>>, vals |-> <<>>]
  /\ rd = NoReader /\ rstack = <<>> /\ rlast = NoCall
  /\ wr = NoWriter /\ wlast = NoCall

\* C.encode(v), then new Reader(bytes) of C.decode
KEncode ==
  /\ pc = "chain" /\ io.phase = "new"
  /\ With(Encode(io.c, io.v), LAMBDA e :
       /\ io' = [io EXCEPT !.enc = e, !.phase = IF e.err = "ok" THEN "start" ELSE "done"]
       /\ rd' = NewReader(e.bytes, FALSE, FALSE))
  /\ UNCHANGED <<pc, rstack, rlast, wr, wlast>>

\* array.decodeStream: const length = r.length(len); a lone chain is one element
KStart ==
  /\ pc = "chain" /\ io.phase = "start"
  /\ IF io.c.k = "array"
     THEN With(ReaderLength(rd, io.c.len), LAMBDA l :
            /\ rd' = l.r
            /\ io' = IF l.err # "ok"
                     THEN [io EXCEPT !.phase = "done", !.dec = [err |-> l.err, val |-> VUndef]]
                     ELSE [io EXCEPT !.phase = "elem", !.n = l.val])
     ELSE /\ io' = [io EXCEPT !.phase = "elem", !.n = 1]
          /\ UNCHANGED rd
  /\ UNCHANGED <<pc, rstack, rlast, wr, wlast>>

\* for (let i = 0; i < length; i++): the next element, or the end of the loop
KElem ==
  /\ pc = "chain" /\ io.phase = "elem"
  /\ io' = IF Len(io.vals) < io.n
           THEN [io EXCEPT !.phase = "walk",
                           !.cur = IF io.c.k = "array" THEN io.c.inner ELSE io.c]
           ELSE [io EXCEPT !.phase = "finish"]
  /\ UNCHANGED <<pc, rd, rstack, rlast, wr, wlast>>

\* pointer.decodeStream up to the call of inner; hops records the pointer value
\* read and the root offset at which the child Reader starts
KDeref ==
  /\ pc = "chain" /\ io.phase = "walk" /\ io.cur.k = "pointer"
  /\ With(Dec(io.cur.ptr, rd), LAMBDA p :
       IF p.err # "ok"
       THEN /\ rd' = p.r /\ rlast' = Call("ptr", p) /\ UNCHANGED rstack
            /\ io' = [io EXCEPT !.phase = "done", !.dec = [err |-> p.err, val |-> VUndef]]
       ELSE With(EnablePtr(p.r, RootPos(p.r, rstack)), LAMBDA e :
            With(OffsetReader(e, p.val.i), LAMBDA o :
              /\ rd' = o.r /\ rlast' = Call("ptr", o)
              /\ IF o.err # "ok"
                 THEN /\ UNCHANGED rstack
                      /\ io' = [io EXCEPT !.phase = "done",
                                          !.dec = [err |-> o.err, val |-> VUndef]]
                 ELSE /\ rstack' = Append(rstack, Saved(e))
                      /\ io' = [io EXCEPT !.cur = io.cur.inner,
                                          !.hops = Append(@, [p |-> p.val.i,
                                                              from |-> e.base,
                                                              to |-> o.r.base])])))
  /\ UNCHANGED <<pc, wr, wlast>>

\* the innermost coder decodes; every pointer.decodeStream returns its value and
\* the root Reader is in use again
KLeaf ==
  /\ pc = "chain" /\ io.phase = "walk" /\ io.cur.k # "pointer"
  /\ With(Dec(io.cur, rd), LAMBDA d :
       IF d.err # "ok"
       THEN /\ rd' = d.r /\ UNCHANGED rstack
            /\ io' = [io EXCEPT !.phase = "done", !.dec = [err |-> d.err, val |-> VUndef]]
       ELSE /\ rd' = IF rstack = <<>> THEN d.r
                     ELSE [d.r EXCEPT !.base = rstack[1].base, !.pos = rstack[1].pos,
                                      !.bitBuf = rstack[1].bitBuf,
                                      !.bitPos = rstack[1].bitPos,
                                      !.child = rstack[1].child]
            /\ rstack' = <<>>
            /\ io' = [io EXCEPT !.phase = "elem", !.vals = Append(@, d.val)])
  /\ UNCHANGED <<pc, rlast, wr, wlast>>

\* wrap(...).decode: r.finish(), and the decoded value
KFinish ==
  /\ pc = "chain" /\ io.phase = "finish"
  /\ With(ReaderFinish(rd), LAMBDA f :
       /\ rd' = f.r
       /\ rlast' = Call("finish", f)
       /\ io' = [io EXCEPT !.phase = "done",
                   !.dec = IF f.err # "ok" THEN [err |-> f.err, val |-> VUndef]
                           ELSE [err |-> "ok",
                                 val |-> IF io.c.k = "array" THEN VArr(io.vals)
                                         ELSE io.vals[1]]])
  /\ UNCHANGED <<pc, rstack, wr, wlast>>

NextChain == KEncode \/ KStart \/ KElem \/ KDeref \/ KLeaf \/ KFinish

SpecPtrChain == InitChain /\ [][NextChain]_vars

\* the sum of the lengths of the encodings of vals[1 .. k] by coder c
RECURSIVE EncLenSum(_, _, _)
EncLenSum(c, vals, k) ==
  IF k = 0 THEN 0 ELSE EncLenSum(c, vals, k - 1) + Len(Encode(c, vals[k]).bytes)

\* the placeholders of C.encode(v) placed at offset at of the returned buffer:
\* [at: where the placeholder is, ptr: its coder, target: where its pointee begins]
RECURSIVE PtrLayout(_, _, _)
PtrLayout(c, v, at) ==
  CASE c.k = "pointer" ->
         {[at |-> at, ptr |-> c.ptr, target |-> at + Size(c.ptr)]}
           \cup PtrLayout(c.inner, v, at + Size(c.ptr))
    [] c.k = "array" ->
         UNION { LET target == at + 1 + Len(v.a) * Size(c.inner.ptr)
                                + EncLenSum(c.inner.inner, v.a, i - 1)
                 IN {[at |-> at + 1 + (i - 1) * Size(c.inner.ptr), ptr |-> c.inner.ptr,
                      target |-> target]}
                      \cup PtrLayout(c.inner.inner, v.a[i], target)
                 : i \in 1 .. Len(v.a) }
    [] OTHER -> {}

\* C12: every placeholder of the returned buffer, nested ones included, holds the
\* absolute offset at which its pointee begins, and on decode a pointer value P
\* makes the child Reader start at absolute offset P of the root buffer.
C12_AbsolutePointerOffsets ==
  (pc = "chain" /\ io.phase = "done" /\ io.enc.err = "ok") =>
    /\ \A e \in PtrLayout(io.c, io.v, 0) :
         SubSeq(io.enc.bytes, e.at + 1, e.at + Size(e.ptr))
           = Encode(e.ptr, VInt(e.target)).bytes
    /\ \A h \in 1 .. Len(io.hops) : io.hops[h].to = io.hops[h].p

\* C13: decode(encode(v)) = v under the default options for pointer chains and
\* arrays of pointer chains, with neither a multiple-read nor an unread error.
C13_PointerRoundTrip ==
  (pc = "chain" /\ io.phase = "done") =>
    /\ io.enc.err = "ok"
    /\ io.dec = [err |-> "ok", val |-> io.v]
    /\ Decode(io.c, io.enc.bytes, FALSE, FALSE) = io.dec

\* an array of two nested pointer chains came back
C13_Witness ==
  /\ pc = "chain" /\ io.phase = "done" /\ io.dec.err = "ok"
  /\ io.c.k = "array" /\ Len(io.vals) = 2 /\ Len(io.hops) = 4

\* ------------------------------------------------------------------------
\* bytes(T) with a terminator T: decodeStream at any position of an input, and
\* decode(encode(v))

Terminators == {<<0>>, <<1, 254>>}
TermData == UNION {[1 .. n -> ByteVals] : n \in 0 .. (MaxLen + 1)}

InitTerm ==
  /\ pc = "term"
  /\ \E data \in TermData, T \in Terminators :
       /\ rd = NewReader(data, FALSE, TRUE)
       /\ io = [k |-> "term", T |-> T, phase |-> "new", pos0 |-> 0,
                dec |-> NoVal, v |-> <<>>, enc |-> NoRes, rt |-> NoVal]
  /\ rstack = <<>> /\ rlast = NoCall
  /\ wr = NoWriter /\ wlast = NoCall

\* an earlier coder consumed a byte: r.byte()
TSkip ==
  /\ pc = "term" /\ io.phase = "new"
  /\ ~IsEnd(rd)
  /\ rd' = ReaderByte(rd, FALSE).r
  /\ rlast' = Call("byte", ReaderByte(rd, FALSE))
  /\ UNCHANGED <<pc, rstack, wr, wlast, io>>

\* bytes(T).decodeStream(r)
TDecode ==
  /\ pc = "term" /\ io.phase = "new"
  /\ With(BytesDecodeStream(CBytesOf(LTerm(io.T)), rd), LAMBDA d :
       /\ rd' = d.r
       /\ io' = [io EXCEPT !.phase = "decoded", !.pos0 = rd.pos,
                           !.dec = [err |-> d.err,
                                    val |-> IF d.err = "ok" THEN d.val ELSE VUndef]])
  /\ UNCHANGED <<pc, rstack, rlast, wr, wlast>>

\* bytes(T).decode(bytes(T).encode(v))
TRound ==
  /\ pc = "term" /\ io.phase = "new" /\ rd.pos = 0
  /\ \E v \in ShortData :
       With(Encode(CBytesOf(LTerm(io.T)), VBytes(v)), LAMBDA e :
         io' = [io EXCEPT !.phase = "round", !.v = v, !.enc = e,
                  !.rt = IF e.err # "ok" THEN NoVal
                         ELSE Decode(CBytesOf(LTerm(io.T)), e.bytes, FALSE, FALSE)])
  /\ UNCHANGED <<pc, rd, rstack, rlast, wr, wlast>>

NextTerm == TSkip \/ TDecode \/ TRound

SpecTerm == InitTerm /\ [][NextTerm]_vars

\* T occurs in data at offset t (0-based)
OccursAt(data, T, t) ==
  /\ t >= 0 /\ t + Len(T) <= Len(data)
  /\ \A j \in 1 .. Len(T) : data[t + j] = T[j]
Contains(data, T) == \E t \in 0 .. Len(data) : OccursAt(data, T, t)
\* the offsets at or after pos where T occurs
Occurrences(data, T, pos) == {t \in pos .. Len(data) : OccursAt(data, T, t)}

\* C14: bytes(T) decoding at pos returns data[pos, t) and leaves pos = t + len(T),
\* t being the first occurrence of T at or after pos (t = pos and t = pos = 0
\* included); it fails exactly when T does not occur at or after pos; and
\* decode(encode(v)) = v for every v that does not contain T.
C14_TerminatedBytesDecode ==
  /\ (pc = "term" /\ io.phase = "decoded") =>
       LET occ == Occurrences(rd.data, io.T, io.pos0) IN
         IF occ = {} THEN io.dec.err # "ok"
         ELSE LET t == CHOOSE t \in occ : \A u \in occ : t <= u IN
                /\ io.dec = [err |-> "ok", val |-> VBytes(SubSeq(rd.data, io.pos0 + 1, t))]
                /\ rd.pos = t + Len(io.T)
  /\ (pc = "term" /\ io.phase = "round" /\ ~Contains(io.v, io.T)) =>
       /\ io.enc.err = "ok"
       /\ io.rt = [err |-> "ok", val |-> VBytes(io.v)]

\* ------------------------------------------------------------------------
\* array(T, inner) with a terminator T: encode, then decode the result

TermInners == {U8, U16, CBytesOf(LCoder(U8))}
TermElems(inner) ==
  IF inner = U8 THEN {VInt(0), VInt(1), VInt(254)}
  ELSE IF inner = U16 THEN {VInt(1), VInt(254), VInt(510)}
  ELSE {VBytes(<<>>), VBytes(<<254>>), VBytes(<<1, 254>>)}
TermArrVals(inner) == UNION {[1 .. n -> TermElems(inner)] : n \in 0 .. MaxLen}

InitArrTerm ==
  /\ pc = "arrterm"
  /\ \E T \in Terminators, inner \in TermInners : \E a \in TermArrVals(inner) :
       io = [k |-> "arrterm", c |-> CArray(LTerm(T), inner), v |-> VArr(a),
             phase |-> "new", enc |-> NoRes, dec |-> NoVal]
  /\ rd = NoReader /\ rstack = <<>> /\ rlast = NoCall
  /\ wr = NoWriter /\ wlast = NoCall

\* array(T, inner).encode(v)
ATEncode ==
  /\ pc = "arrterm" /\ io.phase = "new"
  /\ io' = [io EXCEPT !.phase = "encoded", !.enc = Encode(io.c, io.v)]
  /\ UNCHANGED <<pc, rd, rstack, rlast, wr, wlast>>

\* array(T, inner).decode(bytes) on the bytes encode returned
ATDecode ==
  /\ pc = "arrterm" /\ io.phase = "encoded" /\ io.enc.err = "ok"
  /\ io' = [io EXCEPT !.phase = "decoded",
                      !.dec = Decode(io.c, io.enc.bytes, FALSE, FALSE)]
  /\ UNCHANGED <<pc, rd, rstack, rlast, wr, wlast>>

NextArrTerm == ATEncode \/ ATDecode

SpecArrTerm == InitArrTerm /\ [][NextArrTerm]_vars

\* C15: whenever array(T, inner).encode(v) succeeds, decoding its output gives v
\* back, also when T is longer than one encoded element.
C15_TerminatedArrayRoundTrip ==
  (pc = "arrterm" /\ io.phase = "decoded") => io.dec = [err |-> "ok", val |-> io.v]

\* C16: bytes(T).encode(v) raises an error whenever the payload v contains the
\* terminator T.
C16_TerminatorCollisionRejected ==
  (pc = "term" /\ io.phase = "round" /\ Contains(io.v, io.T)) => io.enc.err # "ok"

(***************************************************************************)
(* Writer.length against a path stack.  A Writer whose path stack holds    *)
(* the values a struct, tuple or array pushed is asked to check or write   *)
(* a length; struct coders with a path-sized field are encoded whole.      *)
(***************************************************************************)
\* the objects on the path stack
PathObjs ==
  { VRec(<<"someLen">>, <<VInt(n)>>) : n \in 1 .. 2 } \union
  { VRec(<<"sub1">>, <<VRec(<<"someLen">>, <<VInt(n)>>)>>) : n \in 1 .. 2 } \union
  { VRec(<<"someLen">>, <<VStr("1")>>), VArr(<<VInt(1)>>) }

\* the path expressions, split at '/'
LenPaths ==
  { <<"someLen">>, <<"sub1", "someLen">>, <<"..", "someLen">>,
    <<"..", "sub1", "someLen">>, <<"..", "..", "someLen">>, <<"..">>,
    <<"">>, <<"0">>, <<"length">>, <<"sub1">>, <<"someLen", "x">> }

LenSpecs ==
  { LNum(n) : n \in 0 .. MaxLen } \union { LPath(p) : p \in LenPaths }
    \union { LCoder(U8), LNull }

\* struct coders whose bytes field takes its length from a sibling's field
PathStructs ==
  { CStruct(<<"sub1", "f2">>,
            <<CStruct(<<"someLen">>, <<U8>>), CBytesOf(LPath(<<"sub1", "someLen">>))>>),
    CStruct(<<"sub1", "sub2">>,
            <<CStruct(<<"someLen">>, <<U8>>),
              CStruct(<<"f2">>, <<CBytesOf(LPath(<<"..", "sub1", "someLen">>))>>)>>) }

\* the bytes of the path-sized field
PathData == UNION {[1 .. n -> ByteVals] : n \in 0 .. MaxLen}

\* the values of a PathStructs coder: someLen n, f2 the bytes b
PathStructVal(c, n, b) ==
  IF c.names[2] = "f2" THEN VObj(<<VObj(<<VInt(n)>>), VBytes(b)>>)
  ELSE VObj(<<VObj(<<VInt(n)>>), VObj(<<VBytes(b)>>)>>)

\* no call made yet
NoLength ==
  [k |-> "len", phase |-> "new", spec |-> LNull, actual |-> 0,
   before |-> NoWriter, err |-> "ok", c |-> U8, n |-> 0, b |-> <<>>,
   enc |-> NoRes]

InitLength ==
  /\ pc = "len"
  /\ io = NoLength
  /\ rd = NoReader /\ rstack = <<>> /\ rlast = NoCall
  /\ wr = NoWriter /\ wlast = NoCall

\* w.path.push(value) of a struct, tuple or array encodeStream
LPush ==
  /\ pc = "len" /\ Len(wr.path) < MaxDepth
  /\ \E o \in PathObjs : wr' = [wr EXCEPT !.path = Append(@, o)]
  /\ io' = [NoLength EXCEPT !.phase = "path"]
  /\ UNCHANGED <<pc, rd, rstack, rlast, wlast>>

\* w.path.pop()
LPop ==
  /\ pc = "len" /\ Len(wr.path) > 0
  /\ wr' = [wr EXCEPT !.path = SubSeq(@, 1, Len(@) - 1)]
  /\ io' = [NoLength EXCEPT !.phase = "path"]
  /\ UNCHANGED <<pc, rd, rstack, rlast, wlast>>

\* w.length(spec, actual)
LLength ==
  /\ pc = "len" /\ Len(wr.buf) + 1 < MaxOut
  /\ \E spec \in LenSpecs, actual \in 0 .. MaxLen :
       With(WriterLength(wr, spec, actual), LAMBDA res :
         /\ wr' = res.w
         /\ io' = [NoLength EXCEPT !.phase = "length", !.spec = spec,
                                   !.actual = actual, !.before = wr,
                                   !.err = res.err])
  /\ UNCHANGED <<pc, rd, rstack, rlast, wlast>>

\* struct(...).encode(value) with a path-sized bytes field, by a new Writer
LStruct ==
  /\ pc = "len" /\ wr = NoWriter
  /\ \E c \in PathStructs, n \in 0 .. MaxLen, b \in PathData :
       io' = [NoLength EXCEPT !.phase = "struct", !.c = c, !.n = n, !.b = b,
                              !.enc = Encode(c, PathStructVal(c, n, b))]
  /\ UNCHANGED <<pc, rd, rstack, rlast, wr, wlast>>

NextLength == LPush \/ LPop \/ LLength \/ LStruct

SpecLength == InitLength /\ [][NextLength]_vars

\* the path resolved as the specification words it: each leading '..' pops one
\* level of the stack, the segments after them index into the value on top
RECURSIVE Walk(_, _)
Walk(cur, segs) ==
  IF Len(segs) = 0 THEN cur
  ELSE IF cur.t = "rec" /\ \E i \in 1 .. Len(cur.names) : cur.names[i] = Head(segs)
  THEN Walk(cur.o[CHOOSE i \in 1 .. Len(cur.names) : cur.names[i] = Head(segs)],
            Tail(segs))
  ELSE IF cur.t = "arr" /\ Head(segs) = "length" /\ Len(segs) = 1
  THEN VInt(Len(cur.a))
  ELSE IF cur.t = "arr" /\ \E i \in 1 .. Len(cur.a) : ToString(i - 1) = Head(segs)
  THEN Walk(cur.a[CHOOSE i \in 1 .. Len(cur.a) : ToString(i - 1) = Head(segs)],
            Tail(segs))
  ELSE VUndef

RECURSIVE Resolve(_, _)
Resolve(stack, segs) ==
  IF Len(segs) > 0 /\ Head(segs) = ".."
  THEN Resolve(SubSeq(stack, 1, Len(stack) - 1), Tail(segs))
  ELSE IF Len(stack) = 0 THEN VUndef
  ELSE Walk(stack[Len(stack)], segs)

\* C17: Writer.length with a number succeeds exactly when the number equals
\* the actual length, with a path exactly when the path resolves against the
\* path stack to the actual length, and neither writes anything; with a coder
\* it writes the actual length with that coder; with null it does nothing and
\* succeeds.  A struct whose bytes field is sized by a path encodes exactly
\* when the referenced field equals the length of the bytes.
C17_EncodeTimeLengthCheck ==
  /\ (pc = "len" /\ io.phase = "length") =>
       CASE io.spec.t = "num" ->
              /\ (io.err = "ok") <=> (io.spec.n = io.actual)
              /\ wr = io.before
         [] io.spec.t = "path" ->
              /\ (io.err = "ok") <=>
                   (Resolve(io.before.path, io.spec.p) = VInt(io.actual))
              /\ wr = io.before
         [] io.spec.t = "coder" ->
              /\ io.err = "ok"
              /\ wr.buf = io.before.buf \o Encode(io.spec.c, VInt(io.actual)).bytes
         [] OTHER -> io.err = "ok" /\ wr = io.before
  /\ (pc = "len" /\ io.phase = "struct") =>
       /\ (io.enc.err = "ok") <=> (io.n = Len(io.b))
       /\ io.enc.err = "ok" => io.enc.bytes = <<io.n>> \o io.b

\* a path with a '..' segment resolved two levels down to the actual length,
\* and another path rejected
C17_Witness ==
  /\ pc = "len" /\ io.phase = "length" /\ io.spec.t = "path"
  /\ io.spec.p = <<"..", "sub1", "someLen">> /\ io.err = "ok" /\ io.actual = 2
  /\ Len(io.before.path) = 2

(***************************************************************************)
(* prefix(len, inner).  decodeStream is taken in its three steps: the      *)
(* frame is cut out of the parent Reader, inner decodes from a new Reader  *)
(* over the frame, and that Reader's finish is called.  encode is taken    *)
(* whole.                                                                  *)
(***************************************************************************)
PrefixBytes == {0, 1, 2}
PrefixInputs == UNION {[1 .. n -> PrefixBytes] : n \in 0 .. (MaxLen + 2)}

PrefixCoders ==
  { CPrefix(LCoder(U8), CArray(LNull, U8)), CPrefix(LCoder(U8), CArray(LNull, U16)),
    CPrefix(LCoder(U8), U8), CPrefix(LCoder(U8), CBytesOf(LNull)),
    CPrefix(LCoder(U8), CPointer(U8, U8, TRUE)), CPrefix(LCoder(U16), U8) }

\* the values given to encode
PrefixVals(c) ==
  CASE c.inner.k = "array" ->
         { VArr([i \in 1 .. n |-> VInt(i)]) : n \in 0 .. MaxLen }
    [] c.inner.k = "bytes" -> { VBytes(b) : b \in PathData }
    [] OTHER -> { VInt(n) : n \in PrefixBytes }

\* prefix decodeStream taking every remaining byte as the frame
PrefixFrame_openEnded(c, r) ==
  With(ReaderLength(r, c.len), LAMBDA l :
    IF l.err # "ok" THEN l
    ELSE ReaderBytes(l.r, LeftBytes(l.r), FALSE))
\* prefix decodeStream: const data = b.decodeStream(r)
PrefixFrame(c, r) ==
  With(BytesDecodeStream(CBytesOf(c.len), r), LAMBDA b :
    IF b.err # "ok" THEN b ELSE Ok(b.r, b.val.u8))

InitPrefix ==
  /\ pc = "prefix"
  /\ \E c \in PrefixCoders :
       \/ \E data \in PrefixInputs, unread \in BOOLEAN :
            /\ rd = NewReader(data, FALSE, unread)
            /\ io = [k |-> "prefix", c |-> c, phase |-> "new", frame |-> <<>>,
                     ir |-> NoReader, res |-> NoVal, v |-> VUndef, enc |-> NoRes]
       \/ \E v \in PrefixVals(c) :
            /\ rd = NoReader
            /\ io = [k |-> "prefix", c |-> c, phase |-> "value", frame |-> <<>>,
                     ir |-> NoReader, res |-> NoVal, v |-> v, enc |-> NoRes]
  /\ rstack = <<>> /\ rlast = NoCall
  /\ wr = NoWriter /\ wlast = NoCall

\* const data = b.decodeStream(r); const ir = new Reader(data, r.opts, ...)
PFrame ==
  /\ pc = "prefix" /\ io.phase = "new"
  /\ With(PrefixFrame(io.c, rd), LAMBDA b :
       /\ rd' = b.r
       /\ io' = IF b.err # "ok"
                THEN [io EXCEPT !.phase = "failed", !.res = [err |-> b.err, val |-> VUndef]]
                ELSE [io EXCEPT !.phase = "frame", !.frame = b.val,
                                !.ir = NewReader(b.val, rd.multi, rd.unread)])
  /\ UNCHANGED <<pc, rstack, rlast, wr, wlast>>

\* const res = inner.decodeStream(ir)
PInner ==
  /\ pc = "prefix" /\ io.phase = "frame"
  /\ With(Dec(io.c.inner, io.ir), LAMBDA d :
       io' = IF d.err # "ok"
             THEN [io EXCEPT !.phase = "failed", !.ir = d.r,
                             !.res = [err |-> d.err, val |-> VUndef]]
             ELSE [io EXCEPT !.phase = "inner", !.ir = d.r,
                             !.res = [err |-> "ok", val |-> d.val]])
  /\ UNCHANGED <<pc, rd, rstack, rlast, wr, wlast>>

\* ir.finish(); return res
PFinish ==
  /\ pc = "prefix" /\ io.phase = "inner"
  /\ With(ReaderFinish(io.ir), LAMBDA f :
       io' = IF f.err # "ok"
             THEN [io EXCEPT !.phase = "failed", !.res = [err |-> f.err, val |-> VUndef]]
             ELSE [io EXCEPT !.phase = "done"])
  /\ UNCHANGED <<pc, rd, rstack, rlast, wr, wlast>>

\* prefix(len, inner).encode(v)
PEncode ==
  /\ pc = "prefix" /\ io.phase = "value"
  /\ io' = [io EXCEPT !.phase = "encoded", !.enc = Encode(io.c, io.v)]
  /\ UNCHANGED <<pc, rd, rstack, rlast, wr, wlast>>

NextPrefix == PFrame \/ PInner \/ PFinish \/ PEncode

SpecPrefix == InitPrefix /\ [][NextPrefix]_vars

\* the length prefix(len, inner) reads first, from the start of the input
PrefixLen == ReaderLength(NewReader(rd.data, FALSE, rd.unread), io.c.len)

\* the frame is the PrefixLen.val bytes after the length, and the parent
\* Reader stands at its end
PrefixFrameTaken ==
  (pc = "prefix" /\ io.phase \in {"frame", "inner", "done"}) =>
    /\ PrefixLen.err = "ok"
    /\ Len(io.frame) = PrefixLen.val
    /\ rd.pos = PrefixLen.r.pos + PrefixLen.val
    /\ rd.pos <= Len(rd.data)
    /\ io.frame = SubSeq(rd.data, PrefixLen.r.pos + 1, PrefixLen.r.pos + PrefixLen.val)

\* inner reads the frame only: its Reader holds the frame, and the bytes after
\* the frame have no part in the value
PrefixInnerConfined ==
  (pc = "prefix" /\ io.phase \in {"inner", "done"}) =>
    /\ io.ir.data = io.frame
    /\ io.ir.pos <= Len(io.frame)
    /\ io.phase = "done" =>
         Dec(io.c, NewReader(SubSeq(rd.data, 1, rd.pos), FALSE, rd.unread)).val
           = io.res.val
    /\ io.c.inner = CArray(LNull, U8) =>
         io.res.val = VArr([i \in 1 .. Len(io.frame) |-> VInt(io.frame[i])])

\* every byte of the frame was read by inner
PrefixFrameRead ==
  /\ io.ir.bitPos = 0
  /\ IF io.ir.bsOn THEN BitsetIndices(io.ir.bs, Len(io.frame), TRUE) = {}
     ELSE io.ir.pos = Len(io.frame)

\* the steps give what decodeStream of the whole coder gives
PrefixStepsAgree ==
  (pc = "prefix" /\ io.phase \in {"done", "failed"}) =>
    With(Dec(io.c, NewReader(rd.data, FALSE, rd.unread)), LAMBDA d :
      /\ d.err = io.res.err
      /\ d.err = "ok" => (d.val = io.res.val /\ d.r.pos = rd.pos))

\* encode writes the length of inner's encoding, then that encoding
PrefixEncodes ==
  (pc = "prefix" /\ io.phase = "encoded") =>
    With(Encode(io.c.inner, io.v), LAMBDA e :
      /\ io.enc.err = "ok" => e.err = "ok"
      /\ io.enc.err = "ok" =>
           io.enc.bytes = Encode(io.c.len.c, VInt(Len(e.bytes))).bytes \o e.bytes)

\* C18: prefix(L, inner) reads the length and takes that many bytes as the
\* frame, leaving the parent Reader at the end of the frame; inner decodes
\* from a Reader over the frame only; unless allowUnreadBytes is set, decoding
\* succeeds only if inner read every byte of the frame; encode emits the
\* length of inner's encoding followed by that encoding.
C18_PrefixFrameIsolation ==
  /\ PrefixFrameTaken
  /\ PrefixInnerConfined
  /\ PrefixStepsAgree
  /\ PrefixEncodes
  /\ (pc = "prefix" /\ io.phase = "done" /\ ~rd.unread) => PrefixFrameRead

\* C18 as stated: decoding fails whenever inner leaves frame bytes unread
C18_UnreadFrameBytesFail ==
  /\ PrefixFrameTaken
  /\ PrefixInnerConfined
  /\ PrefixEncodes
  /\ (pc = "prefix" /\ io.phase = "done") => PrefixFrameRead

\* an unbounded array decoded from a two-byte frame that is followed by
\* another byte in the input
C18_Witness ==
  /\ pc = "prefix" /\ io.phase = "done" /\ ~rd.unread
  /\ io.c.inner = CArray(LNull, U8) /\ Len(io.frame) = 2
  /\ Len(rd.data) > rd.pos

(***************************************************************************)
(* array(null, inner) with an inner coder of fixed size.  A Reader is      *)
(* moved to some position, then the array decodes from it; a tuple of the  *)
(* array and a shorter tail is encoded and decoded again.                  *)
(***************************************************************************)
UnboundedInners == {U8, U16, CBytesOf(LNum(2)), CTuple(<<U8, U16>>)}
UnboundedTails == {U8, CBytesOf(LNum(1)), U16}
UnboundedInputs == UNION {[1 .. n -> ByteVals] : n \in 0 .. (MaxLen + 2)}

\* the values of a fixed-size coder
FixedVals(c) ==
  CASE c.k = "int" -> { VInt(n) : n \in {1, 254} }
    [] c.k = "bytes" -> { VBytes(b) : b \in [1 .. c.len.n -> {1, 254}] }
    [] OTHER -> { VArr(<<VInt(a), VInt(b)>>) : a, b \in {1, 254} }

\* arrays of up to MaxLen values of inner
UnboundedArrays(inner) ==
  UNION { { VArr(a) : a \in [1 .. n -> FixedVals(inner)] } : n \in 0 .. MaxLen }

InitUnbounded ==
  /\ pc = "unbounded"
  /\ \E inner \in UnboundedInners, data \in UnboundedInputs :
       /\ rd = NewReader(data, FALSE, TRUE)
       /\ io = [k |-> "unbounded", inner |-> inner, phase |-> "new", left |-> 0,
                res |-> NoVal, tail |-> U8, v |-> VUndef, enc |-> NoRes,
                dec |-> NoVal]
  /\ rstack = <<>> /\ rlast = NoCall
  /\ wr = NoWriter /\ wlast = NoCall

\* r.byte() by a coder before the array
USkip ==
  /\ pc = "unbounded" /\ io.phase = "new" /\ LeftBytes(rd) > 0
  /\ rd' = ReaderByte(rd, FALSE).r
  /\ UNCHANGED <<pc, rstack, rlast, wr, wlast, io>>

\* array(null, inner).decodeStream(r)
UDecode ==
  /\ pc = "unbounded" /\ io.phase = "new"
  /\ With(Dec(CArray(LNull, io.inner), rd), LAMBDA d :
       /\ rd' = d.r
       /\ io' = [io EXCEPT !.phase = "decoded", !.left = LeftBytes(rd),
                           !.res = [err |-> d.err,
                                    val |-> IF d.err = "ok" THEN d.val ELSE VUndef]])
  /\ UNCHANGED <<pc, rstack, rlast, wr, wlast>>

\* t = tuple([array(null, inner), tail]); t.decode(t.encode(v))
UTuple ==
  /\ pc = "unbounded" /\ io.phase = "new" /\ rd.pos = 0 /\ rd.data = <<>>
  /\ \E tail \in UnboundedTails :
       \E a \in UnboundedArrays(io.inner), x \in FixedVals(tail) :
         With(CTuple(<<CArray(LNull, io.inner), tail>>), LAMBDA t :
           With(Encode(t, VArr(<<a, x>>)), LAMBDA e :
             io' = [io EXCEPT !.phase = "tuple", !.tail = tail,
                              !.v = VArr(<<a, x>>), !.enc = e,
                              !.dec = IF e.err = "ok"
                                      THEN Decode(t, e.bytes, FALSE, FALSE)
                                      ELSE NoVal]))
  /\ UNCHANGED <<pc, rd, rstack, rlast, wr, wlast>>

NextUnbounded == USkip \/ UDecode \/ UTuple

SpecUnbounded == InitUnbounded /\ [][NextUnbounded]_vars

\* C19: array(null, inner) with inner of fixed size s >= 1, decoding with r
\* bytes remaining, returns r div s elements and leaves r mod s bytes unread;
\* tuple([array(null, inner), tail]) decodes its own encoding to the value
\* given whenever the encoding of tail is shorter than s.
C19_UnboundedArrayStopRule ==
  /\ (pc = "unbounded" /\ io.phase = "decoded") =>
       /\ io.res.err = "ok"
       /\ Len(io.res.val.a) = io.left \div Size(io.inner)
       /\ LeftBytes(rd) = io.left % Size(io.inner)
  /\ (pc = "unbounded" /\ io.phase = "tuple" /\ Size(io.tail) < Size(io.inner)) =>
       /\ io.enc.err = "ok"
       /\ io.dec = [err |-> "ok", val |-> io.v]

\* the stop rule where at least one element fits: r >= s
C19_StopRuleFromOneElement ==
  (pc = "unbounded" /\ io.phase = "decoded" /\ io.left >= Size(io.inner)) =>
    /\ io.res.err = "ok"
    /\ Len(io.res.val.a) = io.left \div Size(io.inner)
    /\ LeftBytes(rd) = io.left % Size(io.inner)

(***************************************************************************)
(* flag(flagValue, xor).  A Reader, with or without the read bitset, is    *)
(* moved to some position and flag decodes from it; encode is taken whole. *)
(***************************************************************************)
FlagPatterns == {<<1>>, <<1, 254>>, <<>>}
FlagInputs == UNION {[1 .. n -> ByteVals] : n \in 0 .. (MaxLen + 1)}

InitFlag ==
  /\ pc = "flag"
  /\ \E flagValue \in FlagPatterns, xor \in BOOLEAN, data \in FlagInputs :
       /\ rd = NewReader(data, FALSE, FALSE)
       /\ io = [k |-> "flag", c |-> CFlag(flagValue, xor), phase |-> "new",
                before |-> NoReader, res |-> NoVal, b |-> FALSE, enc |-> NoRes]
  /\ rstack = <<>> /\ rlast = NoCall
  /\ wr = NoWriter /\ wlast = NoCall

\* r.byte() by a coder before the flag
FSkip ==
  /\ pc = "flag" /\ io.phase = "new" /\ ~IsEnd(rd) /\ rd.bitPos = 0
  /\ rd' = ReaderByte(rd, FALSE).r
  /\ UNCHANGED <<pc, rstack, rlast, wr, wlast, io>>

\* r.enablePtr() by a pointer before the flag
FEnable ==
  /\ pc = "flag" /\ io.phase = "new" /\ ~rd.bsOn
  /\ rd' = EnablePtr(rd, rd.pos)
  /\ UNCHANGED <<pc, rstack, rlast, wr, wlast, io>>

\* r.bits(4) by a coder before the flag: the Reader is left inside a byte
FBits ==
  /\ pc = "flag" /\ io.phase = "new" /\ ~IsEnd(rd) /\ rd.bitPos = 0
  /\ rd' = ReaderBits(rd, 4).r
  /\ UNCHANGED <<pc, rstack, rlast, wr, wlast, io>>

\* flag(flagValue, xor).decodeStream(r)
FDecode ==
  /\ pc = "flag" /\ io.phase = "new"
  /\ With(FlagDecodeStream(io.c, rd), LAMBDA d :
       /\ rd' = d.r
       /\ io' = [io EXCEPT !.phase = "decoded", !.before = rd,
                           !.res = [err |-> d.err,
                                    val |-> IF d.err = "ok" THEN d.val ELSE VUndef]])
  /\ UNCHANGED <<pc, rstack, rlast, wr, wlast>>

\* flag(flagValue, xor).encode(b)
FEncode ==
  /\ pc = "flag" /\ io.phase = "new" /\ rd.pos = 0 /\ ~rd.bsOn
  /\ \E b \in BOOLEAN :
       io' = [io EXCEPT !.phase = "encoded", !.b = b, !.enc = Encode(io.c, VBool(b))]
  /\ UNCHANGED <<pc, rd, rstack, rlast, wr, wlast>>

NextFlag == FSkip \/ FEnable \/ FBits \/ FDecode \/ FEncode

SpecFlag == InitFlag /\ [][NextFlag]_vars

\* the bytes at the Reader's position are the pattern
FlagAhead(r, pattern) ==
  /\ r.pos + Len(pattern) <= Len(r.data)
  /\ SubSeq(r.data, r.pos + 1, r.pos + Len(pattern)) = pattern

\* inside a byte the peek is refused as every byte read is; with fewer bytes
\* left than the pattern has, nothing is peeked
FlagUnaligned ==
  (pc = "flag" /\ io.phase = "decoded" /\ io.before.bitPos # 0) =>
    IF LeftBytes(io.before) >= Len(io.c.flagValue) THEN io.res.err = "bitpos"
    ELSE /\ io.res = [err |-> "ok", val |-> VBool(FALSE # io.c.xor)]
         /\ rd = io.before

\* C20: flag(pattern, xor).encode(b) is the pattern when b # xor and empty
\* otherwise; decodeStream, when the bytes at pos are the pattern, moves pos
\* past them, marks exactly them in the read bitset and returns TRUE # xor;
\* otherwise, also with fewer bytes left than the pattern has, it leaves the
\* Reader as it was and returns FALSE # xor.  The Reader is at a byte boundary.
C20_FlagCoder ==
  /\ (pc = "flag" /\ io.phase = "encoded") =>
       io.enc = [err |-> "ok",
                 bytes |-> IF io.b # io.c.xor THEN io.c.flagValue ELSE <<>>]
  /\ (pc = "flag" /\ io.phase = "decoded" /\ io.before.bitPos = 0) =>
       IF FlagAhead(io.before, io.c.flagValue)
       THEN /\ io.res = [err |-> "ok", val |-> VBool(TRUE # io.c.xor)]
            /\ rd.pos = io.before.pos + Len(io.c.flagValue)
            /\ rd.bsOn = io.before.bsOn
            /\ rd.bsOn =>
                 \A p \in 0 .. (Len(rd.data) - 1) :
                   Marked(rd.bs, p) <=>
                     \/ Marked(io.before.bs, p)
                     \/ (io.before.pos <= p /\ p < rd.pos)
       ELSE /\ io.res = [err |-> "ok", val |-> VBool(FALSE # io.c.xor)]
            /\ rd = io.before
  /\ FlagUnaligned

\* a two-byte pattern found and consumed, and one not found with a single
\* byte left
C20_Witness ==
  /\ pc = "flag" /\ io.phase = "decoded" /\ io.c.flagValue = <<1, 254>>
  /\ rd.bsOn /\ io.before.pos > 0
  /\ FlagAhead(io.before, io.c.flagValue)

(***************************************************************************)
(* flagged(selector, inner, def).  With a coder as selector the coder is   *)
(* encoded and decoded whole; with a path as selector it is the second     *)
(* field of a struct whose first field, a bool, the path names, and the    *)
(* struct's decodeStream is taken field by field.                          *)
(***************************************************************************)
FlaggedDefaults == {VUndef, VInt(0), VInt(254)}
FlaggedValues == {VUndef, VInt(0), VInt(1)}
FlaggedInputs == UNION {[1 .. n -> ByteVals] : n \in 0 .. MaxLen}

\* s2 of the tests, with a one-byte inner coder
FlaggedStruct(def) ==
  CStruct(<<"f", "f2">>, <<CBool, CFlagged(LPath(<<"f">>), U8, def)>>)

InitFlagged ==
  /\ pc = "flagged"
  /\ \E def \in FlaggedDefaults, data \in FlaggedInputs :
       /\ rd = NewReader(data, FALSE, TRUE)
       /\ io = [k |-> "flagged", def |-> def, phase |-> "new", v |-> VUndef,
                f |-> VUndef, enc |-> NoRes, res |-> NoVal, before |-> NoReader]
  /\ rstack = <<>> /\ rlast = NoCall
  /\ wr = NoWriter /\ wlast = NoCall

\* flagged(bool, U8, def).encode(v)
GEncode ==
  /\ pc = "flagged" /\ io.phase = "new"
  /\ \E v \in FlaggedValues :
       io' = [io EXCEPT !.phase = "encoded", !.v = v,
                 !.enc = Encode(CFlagged(LCoder(CBool), U8, io.def), v)]
  /\ UNCHANGED <<pc, rd, rstack, rlast, wr, wlast>>

\* struct({f: bool, f2: flagged('f', U8, def)}).encode({f, f2})
GStructEncode ==
  /\ pc = "flagged" /\ io.phase = "new"
  /\ \E f \in BOOLEAN, v \in FlaggedValues \ {VUndef} :
       io' = [io EXCEPT !.phase = "structEncoded", !.f = VBool(f), !.v = v,
                 !.enc = Encode(FlaggedStruct(io.def), VObj(<<VBool(f), v>>))]
  /\ UNCHANGED <<pc, rd, rstack, rlast, wr, wlast>>

\* flagged(bool, U8, def).decodeStream(r)
GDecode ==
  /\ pc = "flagged" /\ io.phase = "new"
  /\ With(Dec(CFlagged(LCoder(CBool), U8, io.def), rd), LAMBDA d :
       /\ rd' = d.r
       /\ io' = [io EXCEPT !.phase = "decoded", !.before = rd,
                           !.res = [err |-> d.err,
                                    val |-> IF d.err = "ok" THEN d.val ELSE VUndef]])
  /\ UNCHANGED <<pc, rstack, rlast, wr, wlast>>

\* struct.decodeStream: res.f = fields.f.decodeStream(r)
GStructF ==
  /\ pc = "flagged" /\ io.phase = "new"
  /\ With(Dec(CBool, rd), LAMBDA d :
       /\ d.err = "ok"
       /\ rd' = d.r
       /\ io' = [io EXCEPT !.phase = "structF", !.f = d.val])
  /\ UNCHANGED <<pc, rstack, rlast, wr, wlast>>

\* struct.decodeStream: res.f2 = fields.f2.decodeStream(r), r.path = [res]
GStructF2 ==
  /\ pc = "flagged" /\ io.phase = "structF"
  /\ With(FlaggedDecodeStream(CFlagged(LPath(<<"f">>), U8, io.def), rd,
                              GetPath(<<VRec(<<"f">>, <<io.f>>)>>, <<"f">>)),
          LAMBDA d :
       /\ rd' = d.r
       /\ io' = [io EXCEPT !.phase = "structDecoded", !.before = rd,
                           !.res = [err |-> d.err,
                                    val |-> IF d.err = "ok" THEN d.val ELSE VUndef]])
  /\ UNCHANGED <<pc, rstack, rlast, wr, wlast>>

NextFlagged == GEncode \/ GStructEncode \/ GDecode \/ GStructF \/ GStructF2

SpecFlagged == InitFlagged /\ [][NextFlagged]_vars

\* what the encoding of a flagged value is to be, after the selector: the
\* value when the selector is true, the default when there is one, else nothing
FlaggedPayload(sel, v, def) ==
  IF sel THEN <<v.i>> ELSE IF def.t # "undef" THEN <<def.i>> ELSE <<>>

\* what decodeStream is to do after the selector: with the selector true or a
\* default it reads one inner value, and returns it only with the selector true
FlaggedRead(sel, before, def) ==
  IF sel \/ def.t # "undef"
  THEN IF LeftBytes(before) < 1 THEN io.res.err # "ok"
       ELSE /\ io.res.err = "ok"
            /\ rd.pos = before.pos + 1
            /\ io.res.val = IF sel THEN VInt(before.data[before.pos + 1]) ELSE VUndef
  ELSE io.res = [err |-> "ok", val |-> VUndef] /\ rd.pos = before.pos

\* C21: flagged(selector, inner, def): with the selector true inner's encoding
\* of the value is written and read; with the selector false and a default,
\* whatever its value, inner's encoding of the default is written and one
\* inner value is read and dropped; with no default nothing is written or read.
C21_FlaggedDefault ==
  /\ (pc = "flagged" /\ io.phase = "encoded") =>
       io.enc = [err |-> "ok",
                 bytes |-> <<IF Truthy(io.v) THEN 1 ELSE 0>>
                             \o FlaggedPayload(Truthy(io.v), io.v, io.def)]
  /\ (pc = "flagged" /\ io.phase = "structEncoded") =>
       io.enc = [err |-> "ok",
                 bytes |-> <<IF io.f.b THEN 1 ELSE 0>>
                             \o FlaggedPayload(io.f.b, io.v, io.def)]
  /\ (pc = "flagged" /\ io.phase = "decoded" /\ LeftBytes(io.before) > 0
        /\ io.before.data[io.before.pos + 1] \in {0, 1}) =>
       FlaggedRead(io.before.data[io.before.pos + 1] = 1,
                   [io.before EXCEPT !.pos = @ + 1], io.def)
  /\ (pc = "flagged" /\ io.phase = "structDecoded") =>
       FlaggedRead(io.f.b, io.before, io.def)

\* C21 with the defaults that are truthy, or absent
C21_TruthyDefault ==
  (pc = "flagged" /\ (io.def.t = "undef" \/ Truthy(io.def))) => C21_FlaggedDefault

(***************************************************************************)
(* flagged(flag, inner) and optional(flag, inner) without a default: a     *)
(* value is encoded and the bytes are decoded again.                       *)
(***************************************************************************)
OptionalFlags == {CBool, Flag1}
OptionalInners == {U8, U16}
OptionalCoders ==
  { CFlagged(LCoder(f), inner, VUndef) : f \in OptionalFlags, inner \in OptionalInners }
    \union { COptional(f, inner, VUndef) : f \in OptionalFlags, inner \in OptionalInners }
OptionalValues == {VUndef} \union { VInt(n) : n \in {0, 1, 2, 254} }

InitOptional ==
  /\ pc = "optional"
  /\ \E c \in OptionalCoders, v \in OptionalValues :
       io = [k |-> "optional", c |-> c, v |-> v, phase |-> "new",
             enc |-> NoRes, dec |-> NoVal]
  /\ rd = NoReader /\ rstack = <<>> /\ rlast = NoCall
  /\ wr = NoWriter /\ wlast = NoCall

\* c.encode(v)
OEncode ==
  /\ pc = "optional" /\ io.phase = "new"
  /\ io' = [io EXCEPT !.phase = "encoded", !.enc = Encode(io.c, io.v)]
  /\ UNCHANGED <<pc, rd, rstack, rlast, wr, wlast>>

\* c.decode(bytes) on the bytes encode returned
ODecode ==
  /\ pc = "optional" /\ io.phase = "encoded" /\ io.enc.err = "ok"
  /\ io' = [io EXCEPT !.phase = "decoded",
                      !.dec = Decode(io.c, io.enc.bytes, FALSE, FALSE)]
  /\ UNCHANGED <<pc, rd, rstack, rlast, wr, wlast>>

NextOptional == OEncode \/ ODecode

SpecOptional == InitOptional /\ [][NextOptional]_vars

\* the discriminator coder of a flagged or optional coder
FlagOf(c) == IF c.k = "flagged" THEN c.sel.c ELSE c.flag

\* C22: flagged(flag, inner) and optional(flag, inner) without a default
\* write a defined value, falsy ones included, as the discriminator true and
\* inner's encoding of it, write undefined as the discriminator false alone,
\* and decode what they wrote to the value given.
C22_OptionalRoundTrip ==
  /\ (pc = "optional" /\ io.phase \in {"encoded", "decoded"}) =>
       /\ io.enc.err = "ok"
       /\ io.enc.bytes =
            IF io.v.t = "undef" THEN Encode(FlagOf(io.c), VBool(FALSE)).bytes
            ELSE Encode(FlagOf(io.c), VBool(TRUE)).bytes
                   \o Encode(io.c.inner, io.v).bytes
  /\ (pc = "optional" /\ io.phase = "decoded") =>
       io.dec = [err |-> "ok", val |-> io.v]

\* C22 for the values that are undefined or truthy
C22_TruthyRoundTrip ==
  (pc = "optional" /\ (io.v.t = "undef" \/ Truthy(io.v))) => C22_OptionalRoundTrip

(***************************************************************************)
(* The size field of struct, tuple and array coders, computed when the     *)
(* coder is built.                                                         *)
(***************************************************************************)
SizeofLeaves == {U8, U16, CBool, CBytesOf(LNum(0)), CBytesOf(LNull), CBits(1)}
SizeofLens ==
  { LNum(n) : n \in 0 .. MaxN } \union
  { LNull, LCoder(U8), LTerm(<<0>>), LPath(<<"len">>) }
SizeofArrays == { CArray(len, inner) : len \in SizeofLens, inner \in SizeofLeaves }
SizeofMembers == SizeofLeaves \union { CArray(LNum(n), U16) : n \in 0 .. MaxN }
                   \union { CArray(LNull, U8), CTuple(<<>>) }
SizeofCoders ==
  SizeofArrays
    \union { CArray(len, inner) : len \in SizeofLens,
                                  inner \in {CArray(LNum(0), U8), CTuple(<<U8, U16>>)} }
    \union { CTuple(<<a, b>>) : a, b \in SizeofMembers }
    \union { CStruct(<<"f1", "f2">>, <<a, b>>) : a, b \in SizeofMembers }
    \union { CTuple(<<a>>) : a \in SizeofMembers }

InitSizeof ==
  /\ pc = "sizeof"
  /\ \E c \in SizeofCoders : io = [k |-> "sizeof", c |-> c, phase |-> "new", size |-> Undef]
  /\ rd = NoReader /\ rstack = <<>> /\ rlast = NoCall
  /\ wr = NoWriter /\ wlast = NoCall

\* struct(fields) / tuple(fields) / array(len, inner): the size of the coder built
ZBuild ==
  /\ pc = "sizeof" /\ io.phase = "new"
  /\ io' = [io EXCEPT !.phase = "built", !.size = Size(io.c)]
  /\ UNCHANGED <<pc, rd, rstack, rlast, wr, wlast>>

NextSizeof == ZBuild

SpecSizeof == InitSizeof /\ [][NextSizeof]_vars

\* the sum of a sequence of numbers
RECURSIVE SumOf(_)
SumOf(ns) == IF ns = <<>> THEN 0 ELSE Head(ns) + SumOf(Tail(ns))

\* the size a struct, tuple or array is to have, from the sizes of its parts:
\* the sum of the members, and n times the element for a constant length n
ExpectedSize(c) ==
  IF c.k \in {"struct", "tuple"}
  THEN IF \E i \in 1 .. Len(c.fields) : Size(c.fields[i]) = Undef THEN Undef
       ELSE SumOf([i \in 1 .. Len(c.fields) |-> Size(c.fields[i])])
  ELSE IF c.len.t = "num" /\ Size(c.inner) # Undef THEN c.len.n * Size(c.inner)
  ELSE Undef

\* C23: struct(fields).size and tuple(fields).size are the sum of the members'
\* sizes when all are defined and undefined otherwise; array(n, inner).size is
\* n * inner.size for a constant n and an inner of defined size, 0 included,
\* and undefined for every other length.
C23_SizeArithmetic ==
  (pc = "sizeof" /\ io.phase = "built") => io.size = ExpectedSize(io.c)

\* C23 for the arrays whose element size is not 0, and for structs and tuples
C23_SizeArithmeticNonZero ==
  (pc = "sizeof" /\ io.phase = "built"
     /\ (io.c.k = "array" => Size(io.c.inner) # 0)) => io.size = ExpectedSize(io.c)

(***************************************************************************)
(* The read bitset against the bytes read.  The Reader calls of SpecKernel *)
(* with every length a caller passes non-negative.                         *)
(***************************************************************************)
InitReadBitset == pc = "reader" /\ InitKernel

NextReadBitset == RByte \/ RBytes \/ RBits \/ RFind \/ RPtr \/ RPtrReturn \/ RFinish

SpecReadBitset == InitReadBitset /\ [][NextReadBitset]_vars

\* the root offsets marked in the read bitset
MarkedSet(r) == {p \in 0 .. (Len(r.data) - 1) : Marked(r.bs, p)}

\* C24: once the read bitset exists, and while no read has failed, the marked
\* offsets are exactly the root offsets of the bytes that the root Reader and
\* the Readers derived from it have returned, for either setting of
\* allowMultipleReads; finish does not report unread bytes when every byte
\* of the input has been returned.
C24_ReadBitsetComplete ==
  /\ (pc = "reader" /\ rd.bsOn /\ ~rd.thrown) => MarkedSet(rd) = rd.seen
  /\ (pc = "reader" /\ rlast.op = "finish" /\ ~rd.thrown
        /\ rd.seen = 0 .. (Len(rd.data) - 1)) => rlast.err # "unread"

\* C24 with allowMultipleReads unset
C24_SingleReadsComplete ==
  (pc = "reader" /\ ~rd.multi) => C24_ReadBitsetComplete

-----------------------------------------------------------------------------
(* SpecPointer: pointer(ptr, inner).decodeStream on a Reader that may have *)
(* read a byte already, then r.finish().                                   *)

PointerVals == {0, 1, 2}
PointerData == UNION {[1 .. n -> PointerVals] : n \in 0 .. (MaxLen + 1)}
PointerInners == { U8, CBits(3), CBytesOf(LNum(2)), CBytesOf(LNum(0)),
                   CPointer(U8, U8, FALSE) }
PointerCoders ==
  { CPointer(p, x, s) : p \in {U8, U16}, x \in PointerInners, s \in BOOLEAN }

InitPointer ==
  /\ pc = "pointer"
  /\ \E c \in PointerCoders, data \in PointerData, multi \in BOOLEAN :
       /\ io = [k |-> "pointer", c |-> c, phase |-> "new", before |-> NoReader,
                err |-> "ok"]
       /\ rd = NewReader(data, multi, FALSE)
  /\ rstack = <<>> /\ rlast = NoCall
  /\ wr = NoWriter /\ wlast = NoCall

\* a coder in front of the pointer reads one byte
PtByte ==
  /\ pc = "pointer" /\ io.phase = "new" /\ rd.pos = 0
  /\ With(ReaderByte(rd, FALSE), LAMBDA b :
       rd' = b.r /\ rlast' = Call("byte", b))
  /\ UNCHANGED <<pc, rstack, wr, wlast, io>>

\* c.decodeStream(r)
PtDecode ==
  /\ pc = "pointer" /\ io.phase = "new" /\ ~rd.thrown
  /\ With(Dec(io.c, rd), LAMBDA d :
       /\ rd' = d.r /\ rlast' = Call("ptr", d)
       /\ io' = [io EXCEPT !.phase = "decoded", !.before = rd, !.err = d.err])
  /\ UNCHANGED <<pc, rstack, wr, wlast>>

\* r.finish()
PtFinish ==
  /\ pc = "pointer" /\ io.phase = "decoded" /\ io.err = "ok"
  /\ With(ReaderFinish(rd), LAMBDA f :
       /\ rd' = f.r /\ rlast' = Call("finish", f)
       /\ io' = [io EXCEPT !.phase = "done", !.err = f.err])
  /\ UNCHANGED <<pc, rstack, wr, wlast>>

NextPointer == PtByte \/ PtDecode \/ PtFinish

SpecPointer == InitPointer /\ [][NextPointer]_vars

\* the offset the pointer field holds, and the bytes inner takes from there when
\* decoded alone over the input from that offset on
PointeeAt == Dec(io.c.ptr, io.before).val.i
PointeeTaken ==
  Dec(io.c.inner,
      NewReader(SubSeq(rd.data, PointeeAt + 1, Len(rd.data)), TRUE, TRUE)).r.pos
PointeeRange == PointeeAt .. (PointeeAt + PointeeTaken - 1)

\* C25: a successful decode of pointer(ptr, inner) leaves the Reader exactly
\* ptr.size bytes further, with bitPos and bitBuf as they were, whatever inner
\* consumed at the offset; what inner consumed shows only in the root's read
\* bitset, which holds the bytes in front of the new pos and the pointee's bytes.
C25_PointerFrame ==
  (pc = "pointer" /\ io.phase = "decoded" /\ io.err = "ok") =>
    /\ rd.pos = io.before.pos + Size(io.c.ptr)
    /\ rd.bitPos = io.before.bitPos /\ rd.bitBuf = io.before.bitBuf
    /\ rd.base = io.before.base /\ rd.child = io.before.child
    /\ rd.bsOn
    /\ io.c.inner.k # "pointer" =>
         /\ MarkedSet(rd) \subseteq (0 .. (rd.pos - 1)) \cup PointeeRange
         /\ 0 .. (rd.pos - 1) \subseteq MarkedSet(rd)
         /\ ~rd.multi => PointeeRange \subseteq MarkedSet(rd)

\* a pointee of three bits was decoded behind a pointer field at offset 1
C25_Witness ==
  /\ pc = "pointer" /\ io.phase = "decoded" /\ io.err = "ok"
  /\ io.c.inner = CBits(3) /\ io.before.pos = 1 /\ rd.pos = 2
  /\ PointeeRange = {2} /\ ~rd.multi

-----------------------------------------------------------------------------
(* SpecBalance: encodeStream of a struct, tuple or array on a Writer whose *)
(* path stacks may hold entries of an enclosing coder, followed by a field *)
(* whose encoding throws.                                                  *)

BalanceArrays ==
  { CArray(l, x) : l \in {LNum(2), LCoder(U8), LNull, LTerm(<<0>>), LTerm(<<0, 0>>)},
                   x \in {U8, U16} }
BalanceCoders ==
  BalanceArrays
    \union { CTuple(<<U8, a>>) : a \in BalanceArrays }
    \union { CStruct(<<"a", "b">>, <<a, U8>>) : a \in BalanceArrays }
BalanceInts == { VInt(n) : n \in {1, 2} }
BalanceLists == { VArr(a) : a \in UNION {[1 .. n -> BalanceInts] : n \in 0 .. MaxLen} }
BalanceValues(c) ==
  CASE c.k = "array" -> BalanceLists
    [] c.k = "tuple" -> { VArr(<<VInt(1), l>>) : l \in BalanceLists }
    [] c.k = "struct" -> { VObj(<<l, VInt(2)>>) : l \in BalanceLists }

InitBalance ==
  /\ pc = "balance"
  /\ \E c \in BalanceCoders, fp \in {<<>>, <<"x">>} : \E v \in BalanceValues(c) :
       /\ io = [k |-> "balance", c |-> c, v |-> v, phase |-> "new",
                before |-> NoWriter, err |-> "ok", errPath |-> <<>>]
       /\ wr = NewWriter(IF fp = <<>> THEN <<>> ELSE <<VObj(<<>>)>>, fp)
  /\ rd = NoReader /\ rstack = <<>> /\ rlast = NoCall
  /\ wlast = NoCall

\* c.encodeStream(w, v)
BEncode ==
  /\ pc = "balance" /\ io.phase = "new"
  /\ With(Enc(io.c, wr, io.v), LAMBDA e :
       /\ wr' = e.w /\ wlast' = Call("encode", e)
       /\ io' = [io EXCEPT !.phase = "encoded", !.before = wr, !.err = e.err])
  /\ UNCHANGED <<pc, rd, rstack, rlast>>

\* the next field, "z", of the enclosing struct: w.fieldPathPush('z');
\* U8.encodeStream(w, 300) throws w.err(...), whose message joins w.fieldPath
BField ==
  /\ pc = "balance" /\ io.phase = "encoded" /\ io.err = "ok"
  /\ With(Enc(U8, [wr EXCEPT !.fieldPath = Append(@, "z")], VInt(300)), LAMBDA e :
       /\ wr' = e.w /\ wlast' = Call("field", e)
       /\ io' = [io EXCEPT !.phase = "failed", !.err = e.err,
                           !.errPath = e.w.fieldPath])
  /\ UNCHANGED <<pc, rd, rstack, rlast>>

NextBalance == BEncode \/ BField

SpecBalance == InitBalance /\ [][NextBalance]_vars

\* an array whose terminator is longer than the encoding of its elements
RECURSIVE ShortElements(_)
ShortElements(c) ==
  CASE c.k = "array" -> c.len.t = "term" /\ Len(c.len.b) > Size(c.inner)
    [] c.k \in {"tuple", "struct"} ->
         \E i \in 1 .. Len(c.fields) : ShortElements(c.fields[i])
    [] OTHER -> FALSE

\* C26: when encodeStream of a struct, tuple or array, with any length
\* specifier, returns normally, the Writer's value path stack and field-name
\* path stack are what they were on entry, so a later error carries the field
\* path of the field being processed.
C26_BalancedPathStacks ==
  /\ (pc = "balance" /\ io.phase = "encoded" /\ io.err = "ok") =>
       wr.path = io.before.path /\ wr.fieldPath = io.before.fieldPath
  /\ (pc = "balance" /\ io.phase = "failed") =>
       io.err # "ok" /\ io.errPath = Append(io.before.fieldPath, "z")

\* C26 for coders without an array whose terminator is longer than its elements
C26_BalancedLongElements ==
  (pc = "balance" /\ ~ShortElements(io.c)) => C26_BalancedPathStacks

-----------------------------------------------------------------------------
(* SpecRange: Bitset.setRange called on a bitset of LEN bits, with and     *)
(* without allowRewrite.                                                   *)

RangeLens == {5, 32, 40, 70}
RangePos == {-1, 0, 1, 4, 30, 31, 32, 33, 39, 63, 64, 65}
RangeLen == {0, 1, 2, 5, 31, 32, 33, 64, 70}

InitRange ==
  /\ pc = "range"
  /\ \E n \in RangeLens :
       io = [k |-> "range", LEN |-> n, bs |-> BitsetCreate(n), calls |-> 0,
             pos |-> 0, len |-> 0, allowRewrite |-> TRUE,
             before |-> BitsetCreate(n), ok |-> TRUE, thrown |-> FALSE]
  /\ rd = NoReader /\ rstack = <<>> /\ rlast = NoCall
  /\ wr = NoWriter /\ wlast = NoCall

RangeCall(pos, len, allowRewrite) ==
  With(BitsetSetRange(io.bs, io.LEN, pos, len, allowRewrite), LAMBDA s :
    io' = [io EXCEPT !.bs = s.bs, !.calls = @ + 1, !.pos = pos, !.len = len,
                     !.allowRewrite = allowRewrite, !.before = io.bs,
                     !.ok = s.ok, !.thrown = s.thrown])

\* Bitset.setRange(bs, LEN, pos, len)
RangeSet ==
  /\ pc = "range" /\ io.calls < MaxCalls
  /\ \E pos \in RangePos, len \in RangeLen : RangeCall(pos, len, TRUE)
  /\ UNCHANGED <<pc, rd, rstack, rlast, wr, wlast>>

\* Bitset.setRange(bs, LEN, pos, len, false)
RangeTry ==
  /\ pc = "range" /\ io.calls < MaxCalls
  /\ \E pos \in RangePos, len \in RangeLen : RangeCall(pos, len, FALSE)
  /\ UNCHANGED <<pc, rd, rstack, rlast, wr, wlast>>

NextRange == RangeSet \/ RangeTry

SpecRange == InitRange /\ [][NextRange]_vars

\* bit i of the bitset: mask 1 << (31 - i mod 32) of chunk floor(i / 32)
RangeBit(bs, i) == (31 - (i % 32)) \in bs[(i \div 32) + 1]
\* bs with the bits pos .. pos + len - 1 set one by one
PerBit(bs, pos, len) ==
  [c \in 1 .. Len(bs) |->
     bs[c] \cup {31 - (i % 32) : i \in {j \in pos .. (pos + len - 1) : j \div 32 = c - 1}}]

\* C27: with allowRewrite = true, pos >= 0, len >= 1 and pos + len <= LEN,
\* setRange returns true and leaves the bitset equal to the old one with the
\* bits pos .. pos + len - 1 set and no other bit changed; with pos + len > LEN
\* it throws.
C27_RangeEqualsPerBit ==
  (pc = "range" /\ io.calls > 0 /\ io.allowRewrite /\ io.pos >= 0 /\ io.len >= 1) =>
    IF io.pos + io.len <= io.LEN
    THEN ~io.thrown /\ io.ok /\ io.bs = PerBit(io.before, io.pos, io.len)
    ELSE io.thrown /\ io.bs = io.before

\* a range over three chunks was set in a bitset that held bits already
C27_Witness ==
  /\ pc = "range" /\ io.calls = 2 /\ io.allowRewrite /\ ~io.thrown
  /\ io.pos = 31 /\ io.len = 33 /\ io.LEN = 70
  /\ RangeBit(io.before, 33) /\ ~RangeBit(io.before, 31) /\ RangeBit(io.bs, 63)

\* C28: with allowRewrite = false, setRange over a range of at least one bit
\* returns false exactly when some bit of pos .. pos + len - 1 is set already,
\* and a call that returns false leaves the bitset as it was, ranges over
\* several chunks included.
C28_OverlapTestPure ==
  (pc = "range" /\ io.calls > 0 /\ ~io.allowRewrite /\ ~io.thrown /\ io.len >= 1) =>
    /\ ~io.ok <=> \E i \in io.pos .. (io.pos + io.len - 1) : RangeBit(io.before, i)
    /\ ~io.ok => io.bs = io.before

\* C28 for ranges inside one chunk
C28_OverlapTestOneChunk ==
  (pc = "range" /\ io.pos \div 32 = (io.pos + io.len - 1) \div 32)
    => C28_OverlapTestPure

-----------------------------------------------------------------------------
(* The Writer's offset in the kernel run *)

\* C29: after any sequence of byte, bytes and bits calls on a Writer, pos is
\* the number of bytes appended to its buffers, a byte still being collected
\* from bits not counted; a failed call changes neither.
C29_WriterPos ==
  pc = "writer" =>
    /\ wr.pos = Len(wr.buf)
    /\ wr.bitPos \in 0 .. 7

\* bits left a byte incomplete behind one complete byte
C29_Witness ==
  /\ pc = "writer" /\ wlast.op = "bits" /\ wlast.err = "ok"
  /\ wr.pos = 1 /\ Len(wr.buf) = 1 /\ wr.bitPos # 0

\* the bitPos with which the child Reader of the pointer is left behind
PointeeBitPos ==
  Dec(io.c.inner,
      NewReader(SubSeq(rd.data, PointeeAt + 1, Len(rd.data)), TRUE, TRUE)).r.bitPos

\* C30: with default options a decode succeeds only if the root Reader and
\* every child Reader made for a pointer ended with bitPos = 0: a pointee that
\* stops inside a byte makes the decode fail.
C30_NoDanglingBits ==
  (pc = "pointer" /\ io.phase = "done" /\ io.err = "ok" /\ ~rd.multi) =>
    rd.bitPos = 0 /\ PointeeBitPos = 0

\* C30 for the root Reader alone
C30_RootBitsEmpty ==
  (pc = "pointer" /\ io.phase = "done" /\ io.err = "ok" /\ ~rd.multi) => rd.bitPos = 0

====
